---- MODULE Spec2Model ----
(***************************************************************************)
(* Model of the perception-to-decision control loop of the Clash Royale    *)
(* agent: ActionSpace, StateManager, RewardCalculator, Environment and the *)
(* Gym episode controller.                                                 *)
(*                                                                         *)
(* Conventions                                                             *)
(*   - A Python Optional[int] is a sequence of length 0 (None) or 1.       *)
(*   - A call that raises is the record Raise(e); one that returns v is    *)
(*     Return(v).                                                          *)
(*   - A float that is a ratio is kept as an exact fraction [num, den].    *)
(*   - Reward floats are kept in fixed point, unit 1/RewardScale.          *)
(***************************************************************************)
EXTENDS Integers, Sequences, FiniteSets, TLC

VARIABLES
    probe,        \* the last call observed: what it was given, what it did
    env,          \* the Environment object (core.py)
    current_step, \* GymEnvironment.current_step
    pc,           \* where the controller is: "idle", or "sleep" inside step
    pending,      \* locals of step kept across its sleep
    out           \* what the last reset or step call returned or raised

vars == <<probe, env, current_step, pc, pending, out>>

gymVars == <<env, current_step, pc, pending, out>>

----------------------------------------------------------------------------
(* Python values *)

None == <<>>

Some(x) == <<x>>

IsNone(o) == Len(o) = 0

Val(o) == o[1]

Raise(e) == [exc |-> e, val |-> <<>>]

Return(v) == [exc |-> "none", val |-> v]

Raised(r) == r.exc # "none"

----------------------------------------------------------------------------
(* actions/action_space.py *)

num_positions == 6

max_hand_size == 4

num_actions == max_hand_size * num_positions + 1

wait_action == 24

(* decode_action with quotient and remainder exchanged *)
decode_action_swapped(action_id) ==
    IF action_id < 0 \/ action_id >= num_actions
    THEN Raise("ValueError")
    ELSE IF action_id = wait_action
    THEN Return(<<None, None>>)
    ELSE Return(<<Some(action_id % num_positions),
                  Some(action_id \div num_positions)>>)

(* decode_action with the upper bound check off by one: 25 is accepted *)
decode_action_loose(action_id) ==
    IF action_id < 0 \/ action_id > num_actions
    THEN Raise("ValueError")
    ELSE IF action_id = wait_action
    THEN Return(<<None, None>>)
    ELSE Return(<<Some(action_id \div num_positions),
                  Some(action_id % num_positions)>>)

(* decode_action taking a negative id as a Python index would, from the end *)
decode_action_wrapping(action_id) ==
    IF action_id >= num_actions \/ action_id < 0 - num_actions
    THEN Raise("ValueError")
    ELSE IF action_id % num_actions = wait_action
    THEN Return(<<None, None>>)
    ELSE Return(<<Some((action_id % num_actions) \div num_positions),
                  Some((action_id % num_actions) % num_positions)>>)

decode_action(action_id) ==
    IF action_id < 0 \/ action_id >= num_actions
    THEN Raise("ValueError")
    ELSE IF action_id = wait_action
    THEN Return(<<None, None>>)
    ELSE Return(<<Some(action_id \div num_positions),
                  Some(action_id % num_positions)>>)

(* encode_action multiplying by the hand size instead of the position count *)
encode_action_stride(card_idx, position_idx) ==
    IF IsNone(card_idx) \/ IsNone(position_idx)
    THEN Return(wait_action)
    ELSE IF Val(card_idx) < 0 \/ Val(card_idx) >= max_hand_size
    THEN Raise("ValueError")
    ELSE IF Val(position_idx) < 0 \/ Val(position_idx) >= num_positions
    THEN Raise("ValueError")
    ELSE Return(Val(card_idx) * max_hand_size + Val(position_idx))

(* encode_action testing only card_idx for absence *)
encode_action_one_none(card_idx, position_idx) ==
    IF IsNone(card_idx)
    THEN Return(wait_action)
    ELSE IF Val(card_idx) < 0 \/ Val(card_idx) >= max_hand_size
    THEN Raise("ValueError")
    ELSE IF IsNone(position_idx)
    THEN Raise("TypeError")
    ELSE IF Val(position_idx) < 0 \/ Val(position_idx) >= num_positions
    THEN Raise("ValueError")
    ELSE Return(Val(card_idx) * num_positions + Val(position_idx))

encode_action(card_idx, position_idx) ==
    IF IsNone(card_idx) \/ IsNone(position_idx)
    THEN Return(wait_action)
    ELSE IF Val(card_idx) < 0 \/ Val(card_idx) >= max_hand_size
    THEN Raise("ValueError")
    ELSE IF Val(position_idx) < 0 \/ Val(position_idx) >= num_positions
    THEN Raise("ValueError")
    ELSE Return(Val(card_idx) * num_positions + Val(position_idx))

(* The inner loop of get_valid_actions for one affordable card: the ids of *)
(* positions position_idx..5 appended to acc, or the error of encode.      *)
RECURSIVE AppendPositions(_, _, _)
AppendPositions(acc, card_idx, position_idx) ==
    IF position_idx >= num_positions
    THEN Return(acc)
    ELSE LET action_id == encode_action(Some(card_idx), Some(position_idx))
         IN  IF Raised(action_id)
             THEN action_id
             ELSE AppendPositions(Append(acc, action_id.val), card_idx,
                                  position_idx + 1)

RECURSIVE AppendCards(_, _, _, _)

(* The outer loop with a strict affordability test (cost < elixir) *)
AppendCards_strict(acc, hand, elixir, i) ==
    IF i > Len(hand)
    THEN Return(acc)
    ELSE IF hand[i].elixir_cost < elixir
    THEN LET r == AppendPositions(acc, i - 1, 0)
         IN  IF Raised(r) THEN r ELSE AppendCards(r.val, hand, elixir, i + 1)
    ELSE AppendCards(acc, hand, elixir, i + 1)

(* The outer loop of get_valid_actions over hand slots i..Len(hand);       *)
(* Python's card_idx is i - 1.                                             *)
AppendCards(acc, hand, elixir, i) ==
    IF i > Len(hand)
    THEN Return(acc)
    ELSE IF hand[i].elixir_cost <= elixir
    THEN LET r == AppendPositions(acc, i - 1, 0)
         IN  IF Raised(r) THEN r ELSE AppendCards(r.val, hand, elixir, i + 1)
    ELSE AppendCards(acc, hand, elixir, i + 1)

(* hand is an Optional list of slots: None, or Some(sequence of slots).    *)
get_valid_actions(hand, elixir) ==
    IF IsNone(hand) \/ Len(Val(hand)) = 0
    THEN Return(<<wait_action>>)
    ELSE AppendCards(<<wait_action>>, Val(hand), elixir, 1)

Contains(list, x) == \E k \in 1..Len(list) : list[k] = x

is_action_valid(action_id, hand, elixir) ==
    LET valid_actions == get_valid_actions(hand, elixir)
    IN  IF Raised(valid_actions)
        THEN valid_actions
        ELSE Return(Contains(valid_actions.val, action_id))

(* get_action_mask ranging over one id too few *)
get_action_mask_short(hand, elixir) ==
    LET valid_actions == get_valid_actions(hand, elixir)
    IN  IF Raised(valid_actions)
        THEN valid_actions
        ELSE Return([i \in 0..(num_actions - 2) |->
                        Contains(valid_actions.val, i)])

get_action_mask(hand, elixir) ==
    LET valid_actions == get_valid_actions(hand, elixir)
    IN  IF Raised(valid_actions)
        THEN valid_actions
        ELSE Return([i \in 0..(num_actions - 1) |->
                        Contains(valid_actions.val, i)])

----------------------------------------------------------------------------
(* config/deck_config.py *)

DECK == <<
    [name |-> "dark_prince", elixir_cost |-> 4],
    [name |-> "prince",      elixir_cost |-> 5],
    [name |-> "ice_wiz",     elixir_cost |-> 3],
    [name |-> "knight",      elixir_cost |-> 3],
    [name |-> "log",         elixir_cost |-> 2],
    [name |-> "mini_pekka",  elixir_cost |-> 4],
    [name |-> "valk",        elixir_cost |-> 4],
    [name |-> "musketeer",   elixir_cost |-> 4] >>

(* A hand slot as built by _find_hand from a deck card. *)
HandSlot(card) == [card |-> card.name, elixir_cost |-> card.elixir_cost]

----------------------------------------------------------------------------
(* Ratios.  env.elixir / 10 and the components of the observation are      *)
(* floats in Python; they are kept here as exact fractions.                *)

Frac(n, d) == [num |-> n, den |-> d]

FracLess(f, k) == f.num < k * f.den

InUnitInterval(f) == f.den > 0 /\ 0 <= f.num /\ f.num <= f.den

Min(a, b) == IF a <= b THEN a ELSE b

----------------------------------------------------------------------------
(* environment/state_manager.py *)

CLASS_ALLY_KING_TOWER == 0

CLASS_ALLY_PRINCESS_TOWER == 1

CLASS_ALLY_TROOP == 2

CLASS_ENEMY_KING_TOWER == 3

CLASS_ENEMY_PRINCESS_TOWER == 4

CLASS_ENNEMY_TROOP == 5

(* A detection as stored by _get_troops.  Only its class is ever read to   *)
(* decide anything; the box and the confidence are left out.               *)
Detection(class_id) == [class |-> class_id]

(* CountDetection taking only the king towers (classes 0 and 3) as towers *)
CountDetection_king_only(features, troop) ==
    IF troop.class = CLASS_ALLY_KING_TOWER
    THEN [features EXCEPT !.ally_towers_alive = @ + 1]
    ELSE IF troop.class = CLASS_ENEMY_KING_TOWER
    THEN [features EXCEPT !.enemy_towers_alive = @ + 1]
    ELSE IF troop.class = CLASS_ALLY_TROOP
    THEN [features EXCEPT !.ally_troops_count = @ + 1]
    ELSE IF troop.class = CLASS_ENNEMY_TROOP
    THEN [features EXCEPT !.enemy_troops_count = @ + 1]
    ELSE features

(* The body of the loop of extract_features for one detection. *)
CountDetection(features, troop) ==
    LET troop_class == troop.class
        counted ==
            IF troop_class \in {CLASS_ALLY_KING_TOWER, CLASS_ALLY_PRINCESS_TOWER}
            THEN [features EXCEPT !.ally_towers_alive = @ + 1]
            ELSE IF troop_class \in {CLASS_ENEMY_KING_TOWER,
                                     CLASS_ENEMY_PRINCESS_TOWER}
            THEN [features EXCEPT !.enemy_towers_alive = @ + 1]
            ELSE features
    IN  IF troop_class \in {0, 1, 3, 4}
        THEN counted
        ELSE IF troop_class = CLASS_ALLY_TROOP
        THEN [counted EXCEPT !.ally_troops_count = @ + 1]
        ELSE IF troop_class = CLASS_ENNEMY_TROOP
        THEN [counted EXCEPT !.enemy_troops_count = @ + 1]
        ELSE counted

RECURSIVE CountDetections(_, _, _)
CountDetections(features, troops, i) ==
    IF i > Len(troops)
    THEN features
    ELSE CountDetections(CountDetection(features, troops[i]), troops, i + 1)

(* extract_features seeding the tower counters with the full board (3) *)
extract_features_full_board(e) ==
    LET features == [elixir |-> Frac(e.elixir, 10),
                     ally_troops_count |-> 0,
                     enemy_troops_count |-> 0,
                     ally_towers_alive |-> 3,
                     enemy_towers_alive |-> 3]
    IN  IF IsNone(e.troops) \/ Len(Val(e.troops)) = 0
        THEN features
        ELSE CountDetections(features, Val(e.troops), 1)

(* e is the Environment: e.elixir and e.troops (None or Some(list)) are    *)
(* read.                                                                   *)
extract_features(e) ==
    LET features == [elixir |-> Frac(e.elixir, 10),
                     ally_troops_count |-> 0,
                     enemy_troops_count |-> 0,
                     ally_towers_alive |-> 0,
                     enemy_towers_alive |-> 0]
    IN  IF IsNone(e.troops) \/ Len(Val(e.troops)) = 0
        THEN features
        ELSE CountDetections(features, Val(e.troops), 1)

encode_observation(features) ==
    << features.elixir,
       Frac(Min(features.ally_troops_count, 20), 20),
       Frac(Min(features.enemy_troops_count, 20), 20),
       Frac(features.ally_towers_alive, 3),
       Frac(features.enemy_towers_alive, 3) >>

----------------------------------------------------------------------------
(* environment/reward_calculator.py.  Rewards and weights are fixed-point  *)
(* numbers: the integer r stands for the float r / RewardScale.            *)

RewardScale == 1000

DefaultWeights ==
    [tower_destroyed  |-> 100 * RewardScale,
     tower_lost       |-> (0 - 100) * RewardScale,
     elixir_advantage |-> 1 * RewardScale,
     win              |-> 1000 * RewardScale,
     loss             |-> (0 - 1000) * RewardScale,
     draw             |-> 0,
     time_penalty     |-> 0 - (RewardScale \div 100)]

(* RewardCalculator.__init__: `weights or {defaults}` *)
RewardCalculator(weights) ==
    IF IsNone(weights) THEN DefaultWeights ELSE Val(weights)

(* _tower_reward without the two `if` guards: gains of towers count too *)
tower_reward_unguarded(weights, ally_towers, enemy_towers, prev_ally_towers, prev_enemy_towers) ==
    weights.tower_destroyed * (prev_enemy_towers - enemy_towers)
    + weights.tower_lost * (prev_ally_towers - ally_towers)

tower_reward(weights, ally_towers, enemy_towers, prev_ally_towers, prev_enemy_towers) ==
    LET destroyed == IF enemy_towers < prev_enemy_towers
                     THEN weights.tower_destroyed
                            * (prev_enemy_towers - enemy_towers)
                     ELSE 0
        lost == IF ally_towers < prev_ally_towers
                THEN weights.tower_lost * (prev_ally_towers - ally_towers)
                ELSE 0
    IN  0 + destroyed + lost

(* elixir is curr_state['elixir'], a fraction; *0.1 and *-0.5 in fixed     *)
(* point.                                                                  *)
elixir_advantage_reward(weights, elixir, action) ==
    IF FracLess(elixir, 10)
    THEN weights.elixir_advantage \div 10
    ELSE 0 - (weights.elixir_advantage \div 2)

(* calculate adding the terminal weight to the shaping terms instead of    *)
(* returning it                                                            *)
calculate_no_short_circuit(weights, prev_state, curr_state, action, battle_result) ==
    LET terminal == IF battle_result = "victory" THEN weights.win
                    ELSE IF battle_result = "defeat" THEN weights.loss
                    ELSE IF battle_result = "draw" THEN weights.draw
                    ELSE 0
    IN  terminal
        + tower_reward(weights,
                       curr_state.ally_towers_alive,
                       curr_state.enemy_towers_alive,
                       prev_state.ally_towers_alive,
                       prev_state.enemy_towers_alive)
        + elixir_advantage_reward(weights, curr_state.elixir, action)
        + weights.time_penalty

(* battle_result is "victory", "defeat", "draw", or "None" for Python's    *)
(* None; any other string is handled like None by the code.                *)
calculate(weights, prev_state, curr_state, action, battle_result) ==
    IF battle_result = "victory" THEN weights.win
    ELSE IF battle_result = "defeat" THEN weights.loss
    ELSE IF battle_result = "draw" THEN weights.draw
    ELSE 0
         + tower_reward(weights,
                        curr_state.ally_towers_alive,
                        curr_state.enemy_towers_alive,
                        prev_state.ally_towers_alive,
                        prev_state.enemy_towers_alive)
         + elixir_advantage_reward(weights, curr_state.elixir, action)
         + weights.time_penalty

----------------------------------------------------------------------------
(* Text read by OCR is a sequence of one-character strings. *)

Whitespace == {" ", "\n"}

RECURSIVE Strip(_)
Strip(text) ==
    IF Len(text) = 0 THEN text
    ELSE IF Head(text) \in Whitespace THEN Strip(Tail(text))
    ELSE IF text[Len(text)] \in Whitespace
    THEN Strip(SubSeq(text, 1, Len(text) - 1))
    ELSE text

(* .replace('\n', '').replace(' ', '') *)
RemoveWhitespace(text) == SelectSeq(text, LAMBDA c : c \notin Whitespace)

DigitChars == {"0", "1", "2", "3", "4", "5", "6", "7", "8", "9"}

DigitValue(c) ==
    CASE c = "0" -> 0 [] c = "1" -> 1 [] c = "2" -> 2 [] c = "3" -> 3
      [] c = "4" -> 4 [] c = "5" -> 5 [] c = "6" -> 6 [] c = "7" -> 7
      [] c = "8" -> 8 [] c = "9" -> 9

RECURSIVE DigitsValue(_, _)
DigitsValue(digits, acc) ==
    IF Len(digits) = 0 THEN acc
    ELSE DigitsValue(Tail(digits), acc * 10 + DigitValue(Head(digits)))

(* Python int(str): an optional sign and at least one decimal digit. *)
ParseInt(part) ==
    LET signed == Len(part) > 0 /\ Head(part) \in {"+", "-"}
        digits == IF signed THEN Tail(part) ELSE part
    IN  IF Len(digits) = 0 \/ \E k \in 1..Len(digits) : digits[k] \notin DigitChars
        THEN Raise("ValueError")
        ELSE IF signed /\ Head(part) = "-"
        THEN Return(0 - DigitsValue(digits, 0))
        ELSE Return(DigitsValue(digits, 0))

WINNER == <<"W", "i", "n", "n", "e", "r", "!">>

----------------------------------------------------------------------------
(* environment/battle_detector.py.  A view is what the detector reads on   *)
(* one frame: the OCR text of the two banner regions and whether the ok    *)
(* button template is found.                                               *)

View(ally_text, enemy_text, ok_found) ==
    [ally_text |-> ally_text, enemy_text |-> enemy_text, ok_found |-> ok_found]

(* detect_battle_result reading the enemy banner before the ally banner *)
detect_battle_result_enemy_first(game_screen) ==
    IF Strip(game_screen.enemy_text) = WINNER THEN "defeat"
    ELSE IF Strip(game_screen.ally_text) = WINNER THEN "victory"
    ELSE "None"

detect_battle_result(game_screen) ==
    IF Strip(game_screen.ally_text) = WINNER THEN "victory"
    ELSE IF Strip(game_screen.enemy_text) = WINNER THEN "defeat"
    ELSE "None"

detect_battle_end(game_screen) ==
    LET result == detect_battle_result(game_screen)
    IN  IF result # "None" THEN result
        ELSE IF game_screen.ok_found THEN "draw"
        ELSE "None"

----------------------------------------------------------------------------
(* environment/core.py.  A screen is what the perception collaborators     *)
(* report on one screenshot:                                               *)
(*   pixels       whether each of the 10 elixir pixels matches the colour  *)
(*   game, full   the views of the cropped game area and of the raw frame  *)
(*   timer_text   the OCR text of the timer region                         *)
(*   predictions  None when the detector call fails, else the class ids    *)
(*   found        the names of the deck cards whose template is found      *)

(* get_elixir counting every matching pixel instead of stopping at the     *)
(* first mismatch                                                          *)
ScanElixir_count_all(pixels, i, elixir) ==
    elixir + Cardinality({k \in i..10 : pixels[k]})

RECURSIVE ScanElixir(_, _, _)
ScanElixir(pixels, i, elixir) ==
    IF i > 10 THEN elixir
    ELSE IF ~pixels[i] THEN elixir
    ELSE ScanElixir(pixels, i + 1, elixir + 1)

get_elixir(pixels) == ScanElixir(pixels, 1, 0)

ColonCount(text) == Cardinality({k \in 1..Len(text) : text[k] = ":"})

(* _get_timer without the sanity check of the total *)
get_timer_unchecked(timer, raw_text) ==
    LET timer_text == RemoveWhitespace(Strip(raw_text))
    IN  IF ColonCount(timer_text) # 1 THEN timer
        ELSE LET k == CHOOSE j \in 1..Len(timer_text) : timer_text[j] = ":"
                 minutes == ParseInt(SubSeq(timer_text, 1, k - 1))
                 seconds == ParseInt(SubSeq(timer_text, k + 1, Len(timer_text)))
             IN  IF Raised(minutes) \/ Raised(seconds) THEN timer
                 ELSE Some(minutes.val * 60 + seconds.val)

(* _get_timer: the new value of self.timer *)
get_timer(timer, raw_text) ==
    LET timer_text == RemoveWhitespace(Strip(raw_text))
    IN  IF ColonCount(timer_text) = 0 THEN timer
        ELSE IF ColonCount(timer_text) + 1 # 2 THEN timer
        ELSE LET k == CHOOSE j \in 1..Len(timer_text) : timer_text[j] = ":"
                 minutes == ParseInt(SubSeq(timer_text, 1, k - 1))
                 seconds == ParseInt(SubSeq(timer_text, k + 1, Len(timer_text)))
             IN  IF Raised(minutes) \/ Raised(seconds) THEN timer
                 ELSE LET total_seconds == minutes.val * 60 + seconds.val
                      IN  IF 0 <= total_seconds /\ total_seconds <= 360
                          THEN Some(total_seconds)
                          ELSE timer

(* _get_troops keeping only the first detection of the response *)
get_troops_first_only(predictions) ==
    IF IsNone(predictions) \/ Len(Val(predictions)) = 0 THEN <<>>
    ELSE <<Detection(Val(predictions)[1])>>

(* _get_troops: the new value of self.troops *)
get_troops(predictions) ==
    IF IsNone(predictions) THEN <<>>
    ELSE [k \in 1..Len(Val(predictions)) |-> Detection(Val(predictions)[k])]

RECURSIVE count_score(_, _, _)
count_score(score, troops, i) ==
    IF i > Len(troops) THEN score
    ELSE LET c == troops[i].class
         IN  count_score(IF c = 3 \/ c = 4 THEN score - 1
                         ELSE IF c = 0 \/ c = 1 THEN score + 1
                         ELSE score,
                         troops, i + 1)

(* _find_hand: the new value of self.hand, in deck order *)
find_hand(found) ==
    LET matched == SelectSeq(DECK, LAMBDA card : card.name \in found)
    IN  [k \in 1..Len(matched) |-> HandSlot(matched[k])]

(* Environment.__init__ *)
Environment ==
    [in_battle |-> FALSE, elixir |-> 0, timer |-> None, troops |-> <<>>,
     score |-> 0, hand |-> <<>>, prev_state |-> None,
     reward_calculator |-> RewardCalculator(None)]

(* update_environment without its first check, the one of the game area *)
update_environment_raw_check_only(e, screen) ==
    LET troops == get_troops(screen.predictions)
    IN  [e EXCEPT
           !.elixir = get_elixir(screen.pixels),
           !.in_battle = IF detect_battle_end(screen.full) # "None" THEN FALSE ELSE @,
           !.timer = get_timer(@, screen.timer_text),
           !.troops = troops,
           !.score = count_score(@, troops, 1),
           !.hand = find_hand(screen.found)]

(* update_environment writing the outcome of its two checks to in_battle  *)
(* either way: true when neither detects an end                            *)
update_environment_sets_flag(e, screen) ==
    LET troops == get_troops(screen.predictions)
    IN  [e EXCEPT
           !.elixir = get_elixir(screen.pixels),
           !.in_battle = detect_battle_end(screen.game) = "None"
                           /\ detect_battle_end(screen.full) = "None",
           !.timer = get_timer(@, screen.timer_text),
           !.troops = troops,
           !.score = count_score(@, troops, 1),
           !.hand = find_hand(screen.found)]

update_environment(e, screen) ==
    LET first_result == detect_battle_end(screen.game)
        troops == get_troops(screen.predictions)
        second_result == detect_battle_end(screen.full)
    IN  [e EXCEPT
           !.elixir = get_elixir(screen.pixels),
           !.in_battle = IF first_result # "None" \/ second_result # "None"
                         THEN FALSE ELSE @,
           !.timer = get_timer(@, screen.timer_text),
           !.troops = troops,
           !.score = count_score(@, troops, 1),
           !.hand = find_hand(screen.found)]

reset_state(e) ==
    [e EXCEPT !.in_battle = TRUE, !.elixir = 0, !.timer = None,
              !.troops = <<>>, !.score = 0, !.hand = <<>>,
              !.prev_state = None]

(* extract_features reads env.elixir and env.troops (always a list here) *)
features_of(e) == extract_features([elixir |-> e.elixir, troops |-> Some(e.troops)])

get_observation(e) == encode_observation(features_of(e))

(* calculate_reward keeping the first snapshot instead of storing the      *)
(* current features after each reward                                      *)
calculate_reward_keeps_snapshot(e, action, battle_result) ==
    LET curr_features == extract_features([elixir |-> e.elixir, troops |-> Some(e.troops)])
    IN  IF IsNone(e.prev_state)
        THEN [reward |-> 0, calculated |-> FALSE,
              env |-> [e EXCEPT !.prev_state = Some(curr_features)]]
        ELSE [reward |-> calculate(e.reward_calculator, Val(e.prev_state),
                                   curr_features, action, battle_result),
              calculated |-> TRUE,
              env |-> e]

(* calculate_reward calling RewardCalculator.calculate on the first tick   *)
(* too, with the current features as the previous ones                     *)
calculate_reward_no_first_tick(e, action, battle_result) ==
    LET curr_features == extract_features([elixir |-> e.elixir, troops |-> Some(e.troops)])
    IN  [reward |-> calculate(e.reward_calculator,
                              IF IsNone(e.prev_state) THEN curr_features
                              ELSE Val(e.prev_state),
                              curr_features, action, battle_result),
         calculated |-> ~IsNone(e.prev_state),
         env |-> [e EXCEPT !.prev_state = Some(curr_features)]]

(* calculate_reward consuming the detection list it has read *)
calculate_reward_clears_troops(e, action, battle_result) ==
    LET curr_features == extract_features([elixir |-> e.elixir, troops |-> Some(e.troops)])
    IN  [reward |-> IF IsNone(e.prev_state) THEN 0
                    ELSE calculate(e.reward_calculator, Val(e.prev_state),
                                   curr_features, action, battle_result),
         calculated |-> ~IsNone(e.prev_state),
         env |-> [e EXCEPT !.prev_state = Some(curr_features), !.troops = <<>>]]

(* calculate_reward: the reward returned, the Environment afterwards, and   *)
(* whether RewardCalculator.calculate was called.                          *)
calculate_reward(e, action, battle_result) ==
    LET curr_features == features_of(e)
    IN  IF IsNone(e.prev_state)
        THEN [reward |-> 0, calculated |-> FALSE,
              env |-> [e EXCEPT !.prev_state = Some(curr_features)]]
        ELSE [reward |-> calculate(e.reward_calculator, Val(e.prev_state),
                                   curr_features, action, battle_result),
              calculated |-> TRUE,
              env |-> [e EXCEPT !.prev_state = Some(curr_features)]]

(* is_battle_ended reading the raw frame instead of the game area *)
is_battle_ended_full(screen) == detect_battle_end(screen.full)

(* is_battle_ended crops the frame to the game area, as update_environment *)
(* did, and reads the same view.                                           *)
is_battle_ended(screen) == detect_battle_end(screen.game)

(* start_new_battle resetting the state whatever start_battle returned *)
start_new_battle_always(e, success) == reset_state(e)

(* start_new_battle, given whether BattleDetector.start_battle succeeded *)
start_new_battle(e, success) == IF success THEN reset_state(e) ELSE e

----------------------------------------------------------------------------
(* execute without its elixir validation *)
execute_without_elixir_check(action_id, e) ==
    LET decoded == decode_action(action_id)
    IN  IF Raised(decoded)
        THEN [ret |-> decoded, placed |-> None]
        ELSE IF IsNone(decoded.val[1])
        THEN [ret |-> Return(TRUE), placed |-> None]
        ELSE IF Val(decoded.val[1]) >= Len(e.hand)
        THEN [ret |-> Return(FALSE), placed |-> None]
        ELSE [ret |-> Return(TRUE),
              placed |-> Some([card |-> e.hand[Val(decoded.val[1]) + 1].card,
                               position_idx |-> Val(decoded.val[2])])]

(* actions/action_executor.py: the value returned or the error raised, and *)
(* the placement command handed to click_n_click (None when there is       *)
(* none).                                                                  *)

execute(action_id, e) ==
    LET decoded == decode_action(action_id)
    IN  IF Raised(decoded)
        THEN [ret |-> decoded, placed |-> None]
        ELSE LET card_idx == decoded.val[1]
                 position_idx == decoded.val[2]
             IN  IF IsNone(card_idx)
                 THEN [ret |-> Return(TRUE), placed |-> None]
                 ELSE IF Val(card_idx) >= Len(e.hand)
                 THEN [ret |-> Return(FALSE), placed |-> None]
                 ELSE IF e.hand[Val(card_idx) + 1].elixir_cost > e.elixir
                 THEN [ret |-> Return(FALSE), placed |-> None]
                 ELSE [ret |-> Return(TRUE),
                       placed |-> Some([card |-> e.hand[Val(card_idx) + 1].card,
                                        position_idx |-> Val(position_idx)])]

----------------------------------------------------------------------------
(* environment/gym_wrapper.py *)

max_steps_per_episode == 300

(* truncated one step late: `>` for `>=` *)
step_limit_reached_late(step) == step > max_steps_per_episode

(* truncated = self.current_step >= self.max_steps_per_episode *)
step_limit_reached(step) == step >= max_steps_per_episode

(* valid_mask[action] on the numpy array of length 25 *)
mask_lookup(valid_mask, action) ==
    IF action >= num_actions \/ action < 0 - num_actions
    THEN Raise("IndexError")
    ELSE IF action < 0 THEN Return(valid_mask[action + num_actions])
    ELSE Return(valid_mask[action])

Info(e) == [elixir |-> e.elixir, hand_size |-> Len(e.hand),
            troops_detected |-> Len(e.troops)]

----------------------------------------------------------------------------
(* Bounds and input sets of the ActionSpace calls *)

MaxHandLen == 5      \* hands of 0..MaxHandLen slots are tried

MaxElixirInput == 10      \* elixir values 0..MaxElixirInput are tried

IdMargin == 2        \* ids -IdMargin .. num_actions - 1 + IdMargin are tried

IdInputs == (0 - IdMargin)..(num_actions - 1 + IdMargin)

CardIdxInputs == {None} \cup {Some(c) : c \in (0 - IdMargin)..(max_hand_size - 1 + IdMargin)}

PositionIdxInputs == {None} \cup {Some(p) : p \in (0 - IdMargin)..(num_positions - 1 + IdMargin)}

(* One deck card per distinct elixir cost of the deck: 2, 3, 4, 5. *)
SlotInputs == {HandSlot(DECK[k]) : k \in {5, 3, 1, 2}}

SeqsUpTo(S, n) == UNION {[1..m -> S] : m \in 0..n}

HandInputs == {None} \cup {Some(h) : h \in SeqsUpTo(SlotInputs, MaxHandLen)}

ElixirInputs == 0..MaxElixirInput

----------------------------------------------------------------------------
(* Specification SpecAS: the ActionSpace calls on bounded inputs.  Init    *)
(* draws one call with its arguments; the action of that call applies it.  *)

Pending(fn, args) == [fn |-> fn, done |-> FALSE, args |-> args, ret |-> None]

Done(fn, args, ret) == [fn |-> fn, done |-> TRUE, args |-> args, ret |-> ret]

Called(fn) == probe.fn = fn /\ probe.done

(* GymEnvironment.__init__ on a fresh Environment *)
GymInit ==
    /\ env = Environment
    /\ current_step = 0
    /\ pc = "idle"
    /\ pending = None
    /\ out = [call |-> "init", status |-> "returned"]

InitASCalls ==
    \/ \E action_id \in IdInputs :
          probe = Pending("decode_action", [action_id |-> action_id])
    \/ \E card_idx \in CardIdxInputs, position_idx \in PositionIdxInputs :
          probe = Pending("encode_action",
                          [card_idx |-> card_idx, position_idx |-> position_idx])
    \/ \E hand \in HandInputs, e \in ElixirInputs :
          probe = Pending("get_valid_actions", [hand |-> hand, elixir |-> e])
    \/ \E hand \in HandInputs, e \in ElixirInputs :
          probe = Pending("get_action_mask", [hand |-> hand, elixir |-> e])

CallDecode ==
    /\ probe.fn = "decode_action" /\ ~probe.done
    /\ probe' = Done(probe.fn, probe.args, decode_action(probe.args.action_id))
    /\ UNCHANGED gymVars

CallEncode ==
    /\ probe.fn = "encode_action" /\ ~probe.done
    /\ probe' = Done(probe.fn, probe.args,
                     encode_action(probe.args.card_idx, probe.args.position_idx))
    /\ UNCHANGED gymVars

CallGetValidActions ==
    /\ probe.fn = "get_valid_actions" /\ ~probe.done
    /\ probe' = Done(probe.fn, probe.args,
                     get_valid_actions(probe.args.hand, probe.args.elixir))
    /\ UNCHANGED gymVars

CallGetActionMask ==
    /\ probe.fn = "get_action_mask" /\ ~probe.done
    /\ probe' = Done(probe.fn, probe.args,
                     get_action_mask(probe.args.hand, probe.args.elixir))
    /\ UNCHANGED gymVars

NextAS ==
    \/ CallDecode
    \/ CallEncode
    \/ CallGetValidActions
    \/ CallGetActionMask

InitAS == InitASCalls /\ GymInit

SpecAS == InitAS /\ [][NextAS]_vars

----------------------------------------------------------------------------
(* Properties of ActionSpace, checked under SpecAS *)

ValidCard(o) == ~IsNone(o) /\ Val(o) \in 0..3

ValidPosition(o) == ~IsNone(o) /\ Val(o) \in 0..5

(* C1: for every card_idx in 0..3 and position_idx in 0..5, decoding the   *)
(* id returned by encode_action gives back exactly (card_idx,              *)
(* position_idx).                                                          *)
C1_DecodeOfEncode ==
    (Called("encode_action") /\ ValidCard(probe.args.card_idx)
                             /\ ValidPosition(probe.args.position_idx))
    => /\ ~Raised(probe.ret)
       /\ decode_action(probe.ret.val)
            = Return(<<probe.args.card_idx, probe.args.position_idx>>)

C1_Witness ==
    /\ Called("encode_action")
    /\ probe.args.card_idx = Some(3) /\ probe.args.position_idx = Some(5)
    /\ probe.ret = Return(23)
    /\ decode_action(23) = Return(<<Some(3), Some(5)>>)

(* C2: for every id in 0..24 (the wait id included) encoding the pair      *)
(* returned by decode_action gives back the id, so no other id in 0..24    *)
(* decodes to the same pair and every (card, position) pair is the decoding *)
(* of exactly one id in 0..23.                                             *)
C2_EncodeOfDecode ==
    (Called("decode_action") /\ probe.args.action_id \in 0..24)
    => /\ ~Raised(probe.ret)
       /\ encode_action(probe.ret.val[1], probe.ret.val[2])
            = Return(probe.args.action_id)
       /\ \A other \in 0..24 :
             other # probe.args.action_id => decode_action(other) # probe.ret
       /\ probe.args.action_id \in 0..23 =>
             /\ ValidCard(probe.ret.val[1])
             /\ ValidPosition(probe.ret.val[2])

C2_Witness ==
    /\ Called("decode_action") /\ probe.args.action_id = 24
    /\ probe.ret = Return(<<None, None>>)
    /\ encode_action(None, None) = Return(24)

(* C3: decode_action raises for every id below 0 or above 24, returns      *)
(* (None, None) for 24, and for an id in 0..23 returns the pair (c, p)     *)
(* with c in 0..3, p in 0..5 and c*6 + p = id, that is (id div 6, id mod   *)
(* 6).                                                                     *)
C3_DecodeContract ==
    Called("decode_action") =>
        LET id == probe.args.action_id IN
        /\ (id < 0 \/ id > 24) => probe.ret = Raise("ValueError")
        /\ id = 24 => probe.ret = Return(<<None, None>>)
        /\ id \in 0..23 =>
              /\ ~Raised(probe.ret)
              /\ ValidCard(probe.ret.val[1])
              /\ ValidPosition(probe.ret.val[2])
              /\ Val(probe.ret.val[1]) * 6 + Val(probe.ret.val[2]) = id

C3_Witness ==
    /\ Called("decode_action") /\ probe.args.action_id = 25
    /\ Raised(probe.ret)

(* C4: encode_action returns 24 whenever card_idx or position_idx is       *)
(* absent; with both present it raises if card_idx is outside 0..3 or      *)
(* position_idx outside 0..5, and otherwise returns                        *)
(* card_idx*6 + position_idx, which is never 24.                           *)
C4_EncodeContract ==
    Called("encode_action") =>
        LET c == probe.args.card_idx
            p == probe.args.position_idx
        IN  /\ (IsNone(c) \/ IsNone(p)) => probe.ret = Return(24)
            /\ (~IsNone(c) /\ ~IsNone(p)) =>
                  IF ValidCard(c) /\ ValidPosition(p)
                  THEN /\ probe.ret = Return(Val(c) * 6 + Val(p))
                       /\ probe.ret.val # 24
                  ELSE probe.ret = Raise("ValueError")

C4_Witness ==
    /\ Called("encode_action")
    /\ ~IsNone(probe.args.card_idx) /\ Val(probe.args.card_idx) = 5
    /\ IsNone(probe.args.position_idx)
    /\ probe.ret = Return(24)

HandFits(hand) == IsNone(hand) \/ Len(Val(hand)) <= 4

Slots(hand) == IF IsNone(hand) THEN <<>> ELSE Val(hand)

AffordableSlots(hand, e) ==
    {i \in 1..Len(Slots(hand)) : Slots(hand)[i].elixir_cost <= e}

ExpectedIds(hand, e) ==
    {24} \cup {(i - 1) * 6 + p : i \in AffordableSlots(hand, e), p \in 0..5}

(* C5: for every elixir in 0..10 and every hand of 0 to 4 slots (or an     *)
(* absent hand), get_valid_actions returns a list whose elements are       *)
(* exactly 24 and the ids i*6+p of the slots i that exist and cost at most *)
(* the elixir, p in 0..5, and no id occurs twice in it.                    *)
C5_ValidActions ==
    (Called("get_valid_actions") /\ HandFits(probe.args.hand)
                                 /\ probe.args.elixir \in 0..10)
    => /\ ~Raised(probe.ret)
       /\ {probe.ret.val[k] : k \in 1..Len(probe.ret.val)}
            = ExpectedIds(probe.args.hand, probe.args.elixir)
       /\ Len(probe.ret.val)
            = Cardinality(ExpectedIds(probe.args.hand, probe.args.elixir))

C5_Witness ==
    /\ Called("get_valid_actions")
    /\ ~IsNone(probe.args.hand) /\ Len(Val(probe.args.hand)) = 4
    /\ probe.args.elixir = 4
    /\ Val(probe.args.hand)[1].elixir_cost = 5
    /\ Val(probe.args.hand)[2].elixir_cost = 4
    /\ Val(probe.args.hand)[3].elixir_cost = 5
    /\ Val(probe.args.hand)[4].elixir_cost = 2
    /\ probe.ret = Return(<<24, 6, 7, 8, 9, 10, 11, 18, 19, 20, 21, 22, 23>>)

TrueEntries(mask) == {i \in DOMAIN mask : mask[i]}

(* C6: for every hand of 0 to 4 slots and elixir in 0..10, get_action_mask *)
(* returns a vector indexed 0..24 of booleans whose true entries are       *)
(* exactly the ids of get_valid_actions; entry 24 is true and the number   *)
(* of true entries is 6 times the number of affordable slots plus 1.       *)
C6_ActionMask ==
    (Called("get_action_mask") /\ ~IsNone(probe.args.hand)
                               /\ HandFits(probe.args.hand)
                               /\ probe.args.elixir \in 0..10)
    => /\ ~Raised(probe.ret)
       /\ DOMAIN probe.ret.val = 0..24
       /\ \A i \in 0..24 : probe.ret.val[i] \in BOOLEAN
       /\ \A i \in 0..24 :
             probe.ret.val[i] <=>
                is_action_valid(i, probe.args.hand, probe.args.elixir).val
       /\ TrueEntries(probe.ret.val)
            = ExpectedIds(probe.args.hand, probe.args.elixir)
       /\ probe.ret.val[24]
       /\ Cardinality(TrueEntries(probe.ret.val))
            = 6 * Cardinality(AffordableSlots(probe.args.hand,
                                              probe.args.elixir)) + 1

(* The example: costs [3, 5] with elixir 4. *)
C6_Witness ==
    /\ Called("get_action_mask")
    /\ probe.args.elixir = 4
    /\ ~IsNone(probe.args.hand) /\ Len(Val(probe.args.hand)) = 2
    /\ Val(probe.args.hand)[1].elixir_cost = 3
    /\ Val(probe.args.hand)[2].elixir_cost = 5
    /\ ~Raised(probe.ret)
    /\ TrueEntries(probe.ret.val) = (0..5) \cup {24}
    /\ Cardinality(TrueEntries(probe.ret.val)) = 7
    /\ \A i \in 6..11 : ~probe.ret.val[i]

----------------------------------------------------------------------------
(* Specification SpecSM: StateManager.extract_features on bounded inputs *)

MaxDet == 4          \* every list of 0..MaxDet detections is tried

MaxClass == 6        \* class ids 0..MaxClass; ids above 5 are no known class

MaxSwarm == 21       \* lists of 0..MaxSwarm detections of one class are tried

DetectionInputs == {Detection(c) : c \in 0..MaxClass}

DetectionLists ==
    SeqsUpTo(DetectionInputs, MaxDet)
    \cup {[k \in 1..n |-> d] : d \in DetectionInputs, n \in 0..MaxSwarm}

TroopsInputs == {None} \cup {Some(l) : l \in DetectionLists}

InitSMCalls ==
    \E e \in ElixirInputs, troops \in TroopsInputs :
        probe = Pending("extract_features", [elixir |-> e, troops |-> troops])

CallExtractFeatures ==
    /\ probe.fn = "extract_features" /\ ~probe.done
    /\ probe' = Done(probe.fn, probe.args, Return(extract_features(probe.args)))
    /\ UNCHANGED gymVars

NextSM == CallExtractFeatures

InitSM == InitSMCalls /\ GymInit

SpecSM == InitSM /\ [][NextSM]_vars

(* C8: extract_features on an empty or absent detection sequence returns   *)
(* a feature record (it does not fail) whose two troop counters and two    *)
(* tower counters are all 0 and whose elixir field is the current elixir   *)
(* over 10.                                                                *)
C8_EmptyDetections ==
    (Called("extract_features")
       /\ (IsNone(probe.args.troops) \/ Len(Val(probe.args.troops)) = 0))
    => /\ ~Raised(probe.ret)
       /\ probe.ret.val.ally_troops_count = 0
       /\ probe.ret.val.enemy_troops_count = 0
       /\ probe.ret.val.ally_towers_alive = 0
       /\ probe.ret.val.enemy_towers_alive = 0
       /\ probe.ret.val.elixir.num = probe.args.elixir
       /\ probe.ret.val.elixir.den = 10

C8_Witness ==
    /\ Called("extract_features")
    /\ IsNone(probe.args.troops)
    /\ probe.args.elixir = 7
    /\ probe.ret.val.ally_towers_alive = 0
    /\ probe.ret.val.elixir = Frac(7, 10)

(* C25: for every detection sequence, the features returned by             *)
(* extract_features have ally_towers_alive in 0..3 and enemy_towers_alive  *)
(* in 0..3.                                                                *)
C25_TowersAtMostThree ==
    Called("extract_features") =>
        /\ probe.ret.val.ally_towers_alive \in 0..3
        /\ probe.ret.val.enemy_towers_alive \in 0..3

(* The number of detections of troops whose class is in classes. *)
DetectionsOfClass(troops, classes) ==
    IF IsNone(troops)
    THEN 0
    ELSE Cardinality({i \in 1..Len(Val(troops)) : Val(troops)[i].class \in classes})

(* C26: extract_features counts each detection exactly once:               *)
(* ally_towers_alive is the number of detections of class 0 or 1,          *)
(* enemy_towers_alive of class 3 or 4, ally_troops_count of class 2 and    *)
(* enemy_troops_count of class 5; a detection of any other class changes   *)
(* no counter, so the four counters sum to at most the number of           *)
(* detections.                                                             *)
C26_EachDetectionCountedOnce ==
    Called("extract_features") =>
        LET troops == probe.args.troops
            features == probe.ret.val
        IN  /\ ~Raised(probe.ret)
            /\ features.ally_towers_alive = DetectionsOfClass(troops, {0, 1})
            /\ features.enemy_towers_alive = DetectionsOfClass(troops, {3, 4})
            /\ features.ally_troops_count = DetectionsOfClass(troops, {2})
            /\ features.enemy_troops_count = DetectionsOfClass(troops, {5})
            /\ features.ally_towers_alive + features.enemy_towers_alive
                  + features.ally_troops_count + features.enemy_troops_count
                  <= (IF IsNone(troops) THEN 0 ELSE Len(Val(troops)))

(* A list of four detections with one of each counted kind but one class   *)
(* that is no known class: three counters move, the sum stays below four.  *)
C26_Witness ==
    /\ Called("extract_features")
    /\ probe.args.troops
         = Some(<<Detection(1), Detection(6), Detection(4), Detection(2)>>)
    /\ probe.ret.val.ally_towers_alive = 1
    /\ probe.ret.val.enemy_towers_alive = 1
    /\ probe.ret.val.ally_troops_count = 1
    /\ probe.ret.val.enemy_troops_count = 0

----------------------------------------------------------------------------
(* Specification SpecRC: RewardCalculator.calculate on bounded inputs *)

MaxTowers == 4       \* tower counters 0..MaxTowers are tried

AltWeights ==
    [tower_destroyed  |-> 50 * RewardScale,
     tower_lost       |-> (0 - 70) * RewardScale,
     elixir_advantage |-> 2 * RewardScale,
     win              |-> 500 * RewardScale,
     loss             |-> (0 - 300) * RewardScale,
     draw             |-> 10 * RewardScale,
     time_penalty     |-> 0 - (RewardScale \div 50)]

WeightsInputs == {None, Some(AltWeights)}

(* elixir features 0.0, 0.9, 1.0 and the out-of-range 10.0 *)
ElixirFeatureInputs == {Frac(n, 10) : n \in {0, 9, 10, 100}}

FeaturesWith(elixirs) ==
    [elixir : elixirs,
     ally_troops_count : {0},
     enemy_troops_count : {0},
     ally_towers_alive : 0..MaxTowers,
     enemy_towers_alive : 0..MaxTowers]

BattleResultInputs == {"None", "victory", "defeat", "draw", "ended"}

TerminalResults == {"victory", "defeat", "draw"}

InitRCCalls ==
    \E weights \in WeightsInputs,
       prev_state \in FeaturesWith({Frac(5, 10)}),
       curr_state \in FeaturesWith(ElixirFeatureInputs),
       action \in {0, 24},
       battle_result \in BattleResultInputs :
        probe = Pending("calculate",
                        [weights |-> weights, prev_state |-> prev_state,
                         curr_state |-> curr_state, action |-> action,
                         battle_result |-> battle_result])

CallCalculate ==
    /\ probe.fn = "calculate" /\ ~probe.done
    /\ probe' = Done(probe.fn, probe.args,
                     Return(calculate(RewardCalculator(probe.args.weights),
                                      probe.args.prev_state,
                                      probe.args.curr_state,
                                      probe.args.action,
                                      probe.args.battle_result)))
    /\ UNCHANGED gymVars

NextRC == CallCalculate

InitRC == InitRCCalls /\ GymInit

SpecRC == InitRC /\ [][NextRC]_vars

ConfiguredWeights ==
    IF IsNone(probe.args.weights) THEN DefaultWeights ELSE Val(probe.args.weights)

(* C9: with battle_result victory, defeat or draw, calculate returns       *)
(* exactly the configured win, loss or draw weight, whatever the two       *)
(* feature snapshots and the action are.                                   *)
C9_TerminalReward ==
    (Called("calculate") /\ probe.args.battle_result \in TerminalResults)
    => /\ probe.args.battle_result = "victory"
            => probe.ret = Return(ConfiguredWeights.win)
       /\ probe.args.battle_result = "defeat"
            => probe.ret = Return(ConfiguredWeights.loss)
       /\ probe.args.battle_result = "draw"
            => probe.ret = Return(ConfiguredWeights.draw)

C9_Witness ==
    /\ Called("calculate")
    /\ probe.args.battle_result = "victory"
    /\ probe.args.prev_state.enemy_towers_alive = 3
    /\ probe.args.curr_state.enemy_towers_alive = 2
    /\ probe.args.prev_state.ally_towers_alive = 3
    /\ probe.args.curr_state.ally_towers_alive = 1
    /\ probe.args.weights = Some(AltWeights)
    /\ probe.ret = Return(500 * RewardScale)

Max0(x) == IF x > 0 THEN x ELSE 0

(* C10: with a battle_result that is not victory, defeat or draw,          *)
(* calculate returns tower_destroyed * max(0, prev enemy towers - current  *)
(* enemy towers) + tower_lost * max(0, prev ally towers - current ally     *)
(* towers) + the elixir term + time_penalty; a tower count that grows      *)
(* contributes nothing.                                                    *)
C10_ShapedReward ==
    (Called("calculate") /\ probe.args.battle_result \notin TerminalResults)
    => LET w == ConfiguredWeights
           prev == probe.args.prev_state
           curr == probe.args.curr_state
       IN  probe.ret = Return(
               w.tower_destroyed
                  * Max0(prev.enemy_towers_alive - curr.enemy_towers_alive)
               + w.tower_lost
                  * Max0(prev.ally_towers_alive - curr.ally_towers_alive)
               + elixir_advantage_reward(w, curr.elixir, probe.args.action)
               + w.time_penalty)

(* The example: enemy towers 3 -> 2, ally towers unchanged, no result. *)
C10_Witness ==
    /\ Called("calculate")
    /\ probe.args.battle_result = "None"
    /\ IsNone(probe.args.weights)
    /\ probe.args.prev_state.enemy_towers_alive = 3
    /\ probe.args.curr_state.enemy_towers_alive = 2
    /\ probe.args.prev_state.ally_towers_alive = 3
    /\ probe.args.curr_state.ally_towers_alive = 3
    /\ probe.args.curr_state.elixir = Frac(9, 10)
    /\ probe.ret = Return(100 * RewardScale + RewardScale \div 10
                          - RewardScale \div 100)

----------------------------------------------------------------------------
(* Specification Spec: the episode controller driven by reset and step    *)
(* calls on screens drawn from ScreenInputs.                               *)

MaxSteps == 2        \* step is tried while current_step < MaxSteps

MaxScore == 1        \* updates are tried while |score| stays <= MaxScore

ActionMargin == 1    \* action ids -ActionMargin .. 24 + ActionMargin

PixelRun(k) == [i \in 1..10 |-> i <= k]

PixelGap == [i \in 1..10 |-> i # 3]     \* 2 matches, a mismatch, 7 matches

NoText == <<"\n">>

WinnerText == WINNER \o <<"\n">>

NoEnd == View(NoText, NoText, FALSE)

AllyWins == View(WinnerText, NoText, FALSE)

EnemyWins == View(NoText, WinnerText, FALSE)

OkOnly == View(NoText, NoText, TRUE)

Board == <<0, 1, 1, 3, 4, 4, 2, 5>>          \* 3 + 3 towers, a troop each

EnemyTowerDown == <<0, 1, 1, 3, 4, 2>>

AllyTowerDown == <<0, 1, 3, 4, 4, 5>>

DuplicateTowers == <<0, 1, 1, 1, 3, 4, 4, 4>>   \* a princess tower seen twice

FourCards == {"dark_prince", "prince", "ice_wiz", "log"}

AllCards == {DECK[k].name : k \in 1..Len(DECK)}

BaseScreen ==
    [pixels |-> PixelRun(4), game |-> NoEnd, full |-> NoEnd,
     timer_text |-> <<"2", ":", "3", "0", "\n">>,
     predictions |-> Some(Board), found |-> FourCards]

ScreenInputs ==
    {[BaseScreen EXCEPT !.pixels = p] :
        p \in {PixelRun(0), PixelRun(4), PixelRun(10), PixelGap}}
    \cup {[BaseScreen EXCEPT !.found = f] : f \in {{}, AllCards}}
    \cup {[BaseScreen EXCEPT !.pixels = PixelRun(0), !.found = AllCards]}
    \cup {[BaseScreen EXCEPT !.game = v] : v \in {AllyWins, EnemyWins, OkOnly}}
    \cup {[BaseScreen EXCEPT !.full = OkOnly]}
    \cup {[BaseScreen EXCEPT !.timer_text = <<"x">>]}
    \cup {[BaseScreen EXCEPT !.predictions = d] :
            d \in {None, Some(EnemyTowerDown), Some(AllyTowerDown),
                   Some(DuplicateTowers)}}

(* A malformed id on each side, the wait id, and placements from the       *)
(* first, second and last slot.                                            *)
ActionInputs ==
    ((0 - ActionMargin)..(0 - 1))
    \cup {0, 6, 23, wait_action}
    \cup (num_actions..(num_actions - 1 + ActionMargin))

(* The outcomes of the start attempts of one reset: the first start        *)
(* succeeds, or it fails and the retry succeeds, or both fail.             *)
StartOutcomes == {<<TRUE>>, <<FALSE, TRUE>>, <<FALSE, FALSE>>}

ScoreInBound(e) == e.score <= MaxScore /\ 0 - MaxScore <= e.score

Raises(call, exc) == [call |-> call, status |-> "raised", exc |-> exc]

(* probe keeps, for the properties, what the last call of the controller   *)
(* was given and what it did inside.                                       *)
ResetCall(starts) == [fn |-> "reset", starts |-> starts]

StepCall(action) == [fn |-> "step", observed |-> FALSE, action |-> action]

StepObserved(action, game, calculated) ==
    [fn |-> "step", observed |-> TRUE, action |-> action, game |-> game,
     calculated |-> calculated]

(* GymEnvironment.reset *)
ResetOn(outcomes, screens) ==
    \E starts \in outcomes, screen \in screens :
        LET first == start_new_battle(env, starts[1])
            started == IF ~starts[1]
                       THEN start_new_battle(first, starts[2])
                       ELSE first
        IN  \E updated \in {update_environment(started, screen)} :
            /\ pc = "idle"
            /\ ScoreInBound(updated)
            /\ env' = updated
            /\ current_step' = 0
            /\ out' = [call |-> "reset", status |-> "returned",
                       observation |-> get_observation(updated),
                       info |-> Info(updated)]
            /\ probe' = ResetCall(starts)
            /\ UNCHANGED <<pc, pending>>

Reset == ResetOn(StartOutcomes, ScreenInputs)

(* The part of step between the mask and the sleep: the entry of the mask  *)
(* read for the log, then the execution of the action.                     *)
ActOn(action, valid_mask, updated) ==
    IF Raised(valid_mask) THEN [ret |-> valid_mask, placed |-> None]
    ELSE IF Raised(mask_lookup(valid_mask.val, action))
    THEN [ret |-> mask_lookup(valid_mask.val, action), placed |-> None]
    ELSE execute(action, updated)

(* GymEnvironment.get_valid_action_mask *)
get_valid_action_mask(e) == get_action_mask(Some(e.hand), e.elixir)

(* GymEnvironment.step up to its time.sleep(1.0): the pre-action update,   *)
(* the mask computed for the log, and the execution of the action.         *)
StepActOn(screens, actions, limit) ==
    /\ pc = "idle"
    /\ current_step < limit
    /\ \E screen \in screens :
         \E updated \in {update_environment(env, screen)} :
           /\ ScoreInBound(updated)
           /\ \E valid_mask \in {get_valid_action_mask(updated)} :
                \E action \in actions :
                  \E executed \in {ActOn(action, valid_mask, updated)} :
                    /\ current_step' = current_step + 1
                    /\ env' = updated
                    /\ probe' = StepCall(action)
                    /\ IF Raised(executed.ret)
                       THEN /\ out' = Raises("step", executed.ret.exc)
                            /\ UNCHANGED <<pc, pending>>
                       ELSE /\ pc' = "sleep"
                            /\ pending' = Some([action |-> action,
                                                action_success |-> executed.ret.val,
                                                placed |-> executed.placed])
                            /\ out' = [call |-> "step", status |-> "running"]

StepAct == StepActOn(ScreenInputs, ActionInputs, MaxSteps)

(* GymEnvironment.step after its sleep: the post-action update, the        *)
(* observation, the terminal check, the reward and the returned tuple.     *)
StepObserveOn(screens) ==
    /\ pc = "sleep"
    /\ \E screen \in screens :
         \E updated \in {update_environment(env, screen)} :
           LET observation == get_observation(updated)
               battle_result == is_battle_ended(screen)
               terminated == battle_result # "None"
               truncated == step_limit_reached(current_step)
           IN  \E rewarded \in {calculate_reward(updated, Val(pending).action,
                                                 battle_result)} :
               /\ ScoreInBound(updated)
               /\ env' = rewarded.env
               /\ out' = [call |-> "step", status |-> "returned",
                          observation |-> observation,
                          reward |-> rewarded.reward,
                          terminated |-> terminated,
                          truncated |-> truncated,
                          info |-> [elixir |-> updated.elixir,
                                    hand_size |-> Len(updated.hand),
                                    troops_detected |-> Len(updated.troops),
                                    action_success |-> Val(pending).action_success,
                                    battle_result |-> battle_result,
                                    step |-> current_step]]
               /\ probe' = StepObserved(probe.action, screen.game,
                                        rewarded.calculated)
               /\ pc' = "idle"
               /\ pending' = None
    /\ UNCHANGED current_step

StepObserve == StepObserveOn(ScreenInputs)

Init == GymInit /\ probe = [fn |-> "init"]

Next ==
    \/ Reset
    \/ StepAct
    \/ StepObserve

Spec == Init /\ [][Next]_vars

Returned(call) == out.call = call /\ out.status = "returned"

(* C7: the observation returned by every reset and every step has exactly  *)
(* 5 components, each in [0, 1], whatever the detector reported            *)
(* (duplicate tower detections included).                                  *)
C7_ObservationInUnitBox ==
    (Returned("reset") \/ Returned("step"))
    => /\ Len(out.observation) = 5
       /\ \A k \in 1..5 : InUnitInterval(out.observation[k])

(* C12: the first step after a reset (step counter 1 in the returned info)  *)
(* returns reward 0 without calling RewardCalculator.calculate and leaves   *)
(* the current features as the previous snapshot, whether or not the       *)
(* battle start of the reset succeeded and whatever earlier episodes did.  *)
(* A first step that finds a previous snapshot can only follow a reset:    *)
(* the snapshot comes from an earlier step and only reset puts the         *)
(* counter back to 0.                                                      *)
C12_FirstStepRewardZero ==
    (Returned("step") /\ out.info.step = 1)
    => /\ out.reward = 0
       /\ ~probe.calculated
       /\ env.prev_state = Some(features_of(env))

AllStartsFailed(starts) == \A k \in 1..Len(starts) : ~starts[k]

(* C15: a reset whose start attempts all fail does not return an           *)
(* observation to its caller: it ends with an error.                       *)
C15_FailedStartReported ==
    (probe.fn = "reset" /\ AllStartsFailed(probe.starts))
    => /\ out.call = "reset"
       /\ out.status = "raised"

(* The action names a slot the hand does not have or a card the elixir     *)
(* does not pay for.                                                       *)
Unplayable(action, e) ==
    /\ action \in 0..23
    /\ \/ action \div 6 >= Len(e.hand)
       \/ e.hand[(action \div 6) + 1].elixir_cost > e.elixir

(* C17: when the action of a step is unplayable on the environment as the  *)
(* pre-action update left it, the step does not fail: it reaches its sleep *)
(* with no placement issued and action_success false, the post-action      *)
(* update being what follows.                                              *)
C17_InvalidActionIsNoOp ==
    (probe.fn = "step" /\ ~probe.observed /\ Unplayable(probe.action, env))
    => /\ out = [call |-> "step", status |-> "running"]
       /\ pc = "sleep"
       /\ ~IsNone(pending)
       /\ Val(pending).placed = None
       /\ Val(pending).action_success = FALSE

(* C18: a step whose action id is in 0..24 never ends with an error,       *)
(* whatever the screens show.                                              *)
C18_StepNeverRaises ==
    (probe.fn = "step" /\ probe.action \in 0..24) => out.status # "raised"

----------------------------------------------------------------------------
(* Specification SpecLong: whole episodes, up to the step limit and past   *)
(* it, on frames that differ in what the detector reads (a running battle, *)
(* either banner, the ok button inside or outside the game area) and on    *)
(* the wait action and the malformed ids, which make the step fail after   *)
(* the counter moved.                                                      *)

MaxEpisodeSteps == 301   \* step is tried while current_step < MaxEpisodeSteps

LongScreens ==
    {[BaseScreen EXCEPT !.game = v] : v \in {NoEnd, AllyWins, EnemyWins, OkOnly}}
    \cup {[BaseScreen EXCEPT !.full = OkOnly]}

LongActions == {wait_action} \cup (ActionInputs \ (0..wait_action))

LongStarts == {<<TRUE>>, <<FALSE, FALSE>>}

LongReset == ResetOn(LongStarts, LongScreens)

LongStepAct == StepActOn(LongScreens, LongActions, MaxEpisodeSteps)

LongStepObserve == StepObserveOn(LongScreens)

NextLong ==
    \/ LongReset
    \/ LongStepAct
    \/ LongStepObserve

SpecLong == Init /\ [][NextLong]_vars

(* What a returned step reports about the counter, and the counter after a *)
(* reset.                                                                  *)
C13_Returned ==
    /\ probe.fn = "reset" => current_step = 0
    /\ Returned("step") =>
          /\ out.info.step = current_step
          /\ out.truncated <=> current_step >= 300
          /\ current_step \in 1..299 => ~out.truncated
          /\ (current_step = 300 /\ detect_battle_end(probe.game) = "None")
                => (out.truncated /\ ~out.terminated)

(* How each part of a call moves the counter: a reset puts it at 0, the    *)
(* start of a step adds 1 (also when the step then fails), the rest of the *)
(* step leaves it alone.                                                   *)
C13_Counter ==
    /\ (pc = "idle" /\ probe'.fn = "reset") => current_step' = 0
    /\ (pc = "idle" /\ probe'.fn = "step") => current_step' = current_step + 1
    /\ pc = "sleep" => current_step' = current_step

(* C13: the k-th step after a reset returns truncated true exactly when    *)
(* k >= 300 (false for steps 1..299; true with terminated false on a 300th *)
(* step that detects no result); the counter is 0 after every reset and    *)
(* grows by exactly 1 per step call.                                       *)
C13_TruncatedAtLimit == []C13_Returned /\ [][C13_Counter]_vars

(* The 300th step of an episode, on a running battle. *)
C13_Witness ==
    /\ Returned("step")
    /\ current_step = 300 /\ out.info.step = 300
    /\ probe.game = NoEnd
    /\ out.truncated /\ ~out.terminated

(* C14: every returned step has terminated true exactly when the result    *)
(* detected on the game area of the post-action frame is victory, defeat   *)
(* or draw; info.battle_result is that result, and is none when terminated *)
(* is false.  The step counter plays no part.                              *)
C14_TerminatedIffResult ==
    Returned("step") =>
        LET detected == detect_battle_end(probe.game)
        IN  /\ out.terminated <=> detected \in TerminalResults
            /\ out.info.battle_result = detected
            /\ ~out.terminated => out.info.battle_result = "None"

(* A draw detected on the first step of an episode, far from truncation. *)
C14_Witness ==
    /\ Returned("step")
    /\ probe.game = OkOnly
    /\ out.terminated /\ ~out.truncated
    /\ out.info.battle_result = "draw"
    /\ out.info.step = 1

(* C16: a step whose action id is outside 0..24 ends with an error before  *)
(* its sleep, and no placement was issued.                                 *)
C16_MalformedActionFails ==
    (probe.fn = "step" /\ probe.action \notin 0..24)
    => /\ out.call = "step" /\ out.status = "raised"
       /\ out.exc \in {"ValueError", "IndexError"}
       /\ ~probe.observed
       /\ pc = "idle" /\ pending = None

(* The id -1: the mask lookup accepts it, decode_action rejects it. *)
C16_Witness ==
    /\ probe.fn = "step" /\ probe.action = 0 - 1
    /\ out = Raises("step", "ValueError")
    /\ current_step = 1
    /\ pending = None

(* The weight configured for a terminal battle result. *)
TerminalWeight(weights, battle_result) ==
    CASE battle_result = "victory" -> weights.win
      [] battle_result = "defeat" -> weights.loss
      [] battle_result = "draw" -> weights.draw

(* C30, as stated: every step that returns terminated = true with battle   *)
(* result r returns exactly the terminal weight configured for r, also     *)
(* when it is the first step after a reset.                                *)
C30_TerminalRewardAlways ==
    (Returned("step") /\ out.terminated)
    => out.reward = TerminalWeight(env.reward_calculator, out.info.battle_result)

(* C30, amended: a step that returns terminated = true with battle result  *)
(* r returns exactly the terminal weight configured for r when a previous  *)
(* feature snapshot was held at the reward computation, and 0 when none    *)
(* was (the first step after a reset whose battle start succeeded).        *)
C30_TerminalRewardAfterFirstTick ==
    (Returned("step") /\ out.terminated)
    => out.reward = IF probe.calculated
                    THEN TerminalWeight(env.reward_calculator,
                                        out.info.battle_result)
                    ELSE 0

(* The first step after a reset sees the victory banner: reward 0. *)
C30_Witness ==
    /\ Returned("step")
    /\ out.terminated
    /\ out.info.battle_result = "victory"
    /\ out.info.step = 1
    /\ ~probe.calculated
    /\ out.reward = 0

----------------------------------------------------------------------------
(* Specification SpecCR: Environment.calculate_reward on an Environment as *)
(* an update leaves it (elixir 0..MaxElixirInput, a list of detections)    *)
(* with or without a previous feature snapshot.                            *)

TroopListInputs ==
    {get_troops(Some(d)) : d \in {<<>>, Board, EnemyTowerDown, AllyTowerDown}}

PrevStateInputs == {None} \cup {Some(f) : f \in FeaturesWith({Frac(5, 10)})}

EnvWith(args) ==
    [Environment EXCEPT !.in_battle = TRUE, !.elixir = args.elixir,
                        !.troops = args.troops, !.prev_state = args.prev_state]

InitCRCalls ==
    \E e \in ElixirInputs, troops \in TroopListInputs,
       prev_state \in PrevStateInputs, action \in {0, wait_action},
       battle_result \in BattleResultInputs :
        probe = Pending("calculate_reward",
                        [elixir |-> e, troops |-> troops,
                         prev_state |-> prev_state, action |-> action,
                         battle_result |-> battle_result])

CallCalculateReward ==
    /\ probe.fn = "calculate_reward" /\ ~probe.done
    /\ probe' = Done(probe.fn, probe.args,
                     Return(calculate_reward(EnvWith(probe.args),
                                             probe.args.action,
                                             probe.args.battle_result)))
    /\ UNCHANGED gymVars

NextCR == CallCalculateReward

InitCR == InitCRCalls /\ GymInit

SpecCR == InitCR /\ [][NextCR]_vars

(* The elixir-management term as stated: a tenth of the weight below 10,   *)
(* minus half of the weight at 10.                                         *)
StatedElixirTerm(elixir) ==
    IF elixir < 10 THEN DefaultWeights.elixir_advantage \div 10
    ELSE 0 - (DefaultWeights.elixir_advantage \div 2)

(* C11: when a previous snapshot exists and the battle result is not       *)
(* terminal, the reward is the tower term plus the time penalty plus an    *)
(* elixir term that is +0.1 * elixir_advantage when the environment's      *)
(* elixir is below 10 and -0.5 * elixir_advantage when it is 10.           *)
C11_ElixirTerm ==
    (/\ Called("calculate_reward")
     /\ ~IsNone(probe.args.prev_state)
     /\ probe.args.battle_result \notin TerminalResults
     /\ probe.args.elixir <= 10)
    => LET curr == features_of(EnvWith(probe.args))
           prev == Val(probe.args.prev_state)
       IN  probe.ret.val.reward
             = tower_reward(DefaultWeights,
                            curr.ally_towers_alive, curr.enemy_towers_alive,
                            prev.ally_towers_alive, prev.enemy_towers_alive)
               + StatedElixirTerm(probe.args.elixir)
               + DefaultWeights.time_penalty

----------------------------------------------------------------------------
(* Specification SpecEnv: an Environment under any sequence of             *)
(* update_environment and reset_state calls.  The frames vary the ten      *)
(* elixir pixels (every run, and every pattern with at most MaxMismatches  *)
(* mismatching pixels) and the set of deck cards whose template matches    *)
(* (every subset of the deck).                                             *)

MaxMismatches == 2   \* pixel patterns with 0..MaxMismatches mismatches

PixelInputs ==
    {PixelRun(k) : k \in 0..10}
    \cup {p \in [1..10 -> BOOLEAN] :
             Cardinality({i \in 1..10 : ~p[i]}) <= MaxMismatches}

EnvScreenInputs ==
    {[BaseScreen EXCEPT !.pixels = p] : p \in PixelInputs}
    \cup {[BaseScreen EXCEPT !.found = f] : f \in SUBSET AllCards}
    \cup {[BaseScreen EXCEPT !.game = AllyWins]}

UpdateEnvironment ==
    /\ \E screen \in EnvScreenInputs :
         \E updated \in {update_environment(env, screen)} :
           /\ ScoreInBound(updated)
           /\ env' = updated
           /\ probe' = [fn |-> "update_environment",
                        pixels |-> screen.pixels, found |-> screen.found]
    /\ UNCHANGED <<current_step, pc, pending, out>>

ResetState ==
    /\ env' = reset_state(env)
    /\ probe' = [fn |-> "reset_state"]
    /\ UNCHANGED <<current_step, pc, pending, out>>

NextEnv ==
    \/ UpdateEnvironment
    \/ ResetState

SpecEnv == Init /\ [][NextEnv]_vars

(* The number of leading pixels that match: k with pixels 1..k matching    *)
(* and pixel k+1, if there is one, not matching.                           *)
LeadingMatches(pixels) ==
    CHOOSE k \in 0..10 :
        /\ \A i \in 1..k : pixels[i]
        /\ k = 10 \/ ~pixels[k + 1]

(* C19: Environment.elixir is always an integer in 0..10, and after an     *)
(* update it is the number of leading scan positions whose pixel matches:  *)
(* matching pixels after the first mismatch are not counted.               *)
C19_ElixirIsLeadingRun ==
    /\ env.elixir \in 0..10
    /\ probe.fn = "update_environment" =>
          env.elixir = LeadingMatches(probe.pixels)
    /\ probe.fn = "reset_state" => env.elixir = 0

(* Two matches, a mismatch, seven matches: elixir 2. *)
C19_Witness ==
    /\ probe.fn = "update_environment"
    /\ probe.pixels = PixelGap
    /\ env.elixir = 2

(* C20: after every update_environment the hand holds at most 4 slots,     *)
(* whichever deck cards the template matching finds.                       *)
C20_HandAtMostFour ==
    probe.fn = "update_environment" => Len(env.hand) <= 4

----------------------------------------------------------------------------
(* Specification SpecBD: BattleDetector.detect_battle_end on one frame,    *)
(* for every pair of banner texts of BannerTextInputs and either outcome   *)
(* of the ok-button match.                                                 *)

BannerTextInputs ==
    {<<>>, NoText, WINNER, WinnerText, <<" ">> \o WinnerText,
     <<"W", "i", "n", "n", "e", "r">>, <<"w", "i", "n", "n", "e", "r", "!">>,
     WINNER \o <<" ">> \o WINNER, <<"L", "o", "s", "e", "r", "!", "\n">>}

InitBDCalls ==
    \E ally_text \in BannerTextInputs, enemy_text \in BannerTextInputs,
       ok_found \in BOOLEAN :
        probe = Pending("detect_battle_end",
                        [game_screen |-> View(ally_text, enemy_text, ok_found)])

CallDetectBattleEnd ==
    /\ probe.fn = "detect_battle_end" /\ ~probe.done
    /\ probe' = Done(probe.fn, probe.args,
                     Return(detect_battle_end(probe.args.game_screen)))
    /\ UNCHANGED gymVars

NextBD == CallDetectBattleEnd

InitBD == InitBDCalls /\ GymInit

SpecBD == InitBD /\ [][NextBD]_vars

(* The text is "Winner!" between leading and trailing blanks or newlines. *)
ReadsWinner(text) ==
    \E i \in 1..(Len(text) + 1) :
        /\ i + 6 <= Len(text)
        /\ SubSeq(text, i, i + 6) = <<"W", "i", "n", "n", "e", "r", "!">>
        /\ \A k \in 1..(i - 1) : text[k] \in {" ", "\n"}
        /\ \A k \in (i + 7)..Len(text) : text[k] \in {" ", "\n"}

(* C21: detect_battle_end returns victory whenever the ally banner reads   *)
(* the winner text (also when the enemy banner reads it too), defeat when  *)
(* only the enemy banner reads it, draw when neither does and the ok       *)
(* dialog is found, and none when neither banner nor dialog matches.       *)
C21_DetectBattleEnd ==
    Called("detect_battle_end") =>
        LET view == probe.args.game_screen
            ally == ReadsWinner(view.ally_text)
            enemy == ReadsWinner(view.enemy_text)
        IN  /\ ally => probe.ret = Return("victory")
            /\ (~ally /\ enemy) => probe.ret = Return("defeat")
            /\ (~ally /\ ~enemy /\ view.ok_found) => probe.ret = Return("draw")
            /\ (~ally /\ ~enemy /\ ~view.ok_found) => probe.ret = Return("None")

(* Both banners read the winner text and the ok dialog shows: victory. *)
C21_Witness ==
    /\ Called("detect_battle_end")
    /\ probe.args.game_screen = View(WinnerText, WinnerText, TRUE)
    /\ probe.ret = Return("victory")

----------------------------------------------------------------------------
(* Specification SpecTimer: Environment.update_environment and             *)
(* reset_state in any order, on frames whose timer area reads one of       *)
(* TimerTextInputs, all else as in BaseScreen.                             *)

MinutesParts ==
    {<<>>, <<"0">>, <<"2">>, <<"6">>, <<"0", "2">>, <<"-", "1">>, <<"x">>}

SecondsParts ==
    {<<>>, <<"0", "0">>, <<"3", "0">>, <<"6", "0">>, <<"9", "0">>,
     <<"3", " ", "0">>, <<"3", "6", "1">>, <<"-", "5">>, <<"3", "o">>}

(* What the OCR gives for a clock showing minutes_part:seconds_part. *)
TimerTexts(minutes_part, seconds_part) ==
    {minutes_part \o <<":">> \o seconds_part,
     <<" ">> \o minutes_part \o <<":">> \o seconds_part \o <<"\n">>}

TimerTextInputs ==
    UNION {TimerTexts(mp, sp) : mp \in MinutesParts, sp \in SecondsParts}
    \cup {NoText, <<>>, <<"2", "3", "0">>, <<"2", ".", "3", "0", "\n">>,
          <<"2", ":", "3", ":", "0">>, <<"2", ":", ":", "3", "0", "\n">>}

TimerScreenInputs ==
    {[BaseScreen EXCEPT !.timer_text = t] : t \in TimerTextInputs}

UpdateTimer ==
    /\ \E screen \in TimerScreenInputs :
         \E updated \in {update_environment(env, screen)} :
           /\ ScoreInBound(updated)
           /\ env' = updated
           /\ probe' = [fn |-> "update_environment",
                        timer_text |-> screen.timer_text,
                        before |-> env.timer]
    /\ UNCHANGED <<current_step, pc, pending, out>>

NextTimer ==
    \/ UpdateTimer
    \/ ResetState

SpecTimer == Init /\ [][NextTimer]_vars

(* The numbers the digits of a part stand for; a part outside this table   *)
(* is not a number.                                                        *)
Readings ==
    {<< <<"0">>, 0 >>, << <<"2">>, 2 >>, << <<"6">>, 6 >>,
     << <<"0", "2">>, 2 >>, << <<"-", "1">>, 0 - 1 >>,
     << <<"0", "0">>, 0 >>, << <<"3", "0">>, 30 >>,
     << <<"6", "0">>, 60 >>, << <<"9", "0">>, 90 >>,
     << <<"3", " ", "0">>, 30 >>, << <<"3", "6", "1">>, 361 >>,
     << <<"-", "5">>, 0 - 5 >>}

(* The totals minutes * 60 + seconds a text stands for (none or one). *)
StatedTotals(text) ==
    {m[2] * 60 + s[2] : <<m, s>> \in
        {ms \in Readings \X Readings :
            /\ ms[1][1] \in MinutesParts /\ ms[2][1] \in SecondsParts
            /\ text \in TimerTexts(ms[1][1], ms[2][1])}}

(* C23: after every update_environment the timer is either the value it    *)
(* had before or a freshly parsed minutes * 60 + seconds total in 0..360;  *)
(* the timer is always unknown or in 0..360; and a text with no colon,     *)
(* with more than one colon, with a part that is not a number, or with a   *)
(* total below 0 or above 360, leaves the timer as it was.                 *)
C23_TimerKeptOrParsed ==
    /\ IsNone(env.timer) \/ Val(env.timer) \in 0..360
    /\ probe.fn = "update_environment" =>
         LET totals == StatedTotals(probe.timer_text)
         IN  /\ env.timer = probe.before
                \/ \E t \in totals : t \in 0..360 /\ env.timer = Some(t)
             /\ (\A t \in totals : t \notin 0..360) => env.timer = probe.before

(* A clock of 6:30 (390 seconds) read while the timer is known: kept. *)
C23_Witness ==
    /\ probe.fn = "update_environment"
    /\ probe.timer_text = <<"6", ":", "3", "0">>
    /\ probe.before = Some(150)
    /\ env.timer = Some(150)

----------------------------------------------------------------------------
(* Specification SpecBattle: Environment.start_new_battle with either      *)
(* outcome of start_battle, between updates from the frames of             *)
(* BattleScreenInputs and calls of calculate_reward, in any order.         *)

BattleScreenInputs ==
    {BaseScreen,
     [BaseScreen EXCEPT !.pixels = PixelRun(7), !.found = {"knight"}],
     [BaseScreen EXCEPT !.predictions = Some(EnemyTowerDown)],
     [BaseScreen EXCEPT !.predictions = None, !.timer_text = NoText],
     [BaseScreen EXCEPT !.game = AllyWins, !.timer_text = <<"0", ":", "0", "0">>]}

UpdateBattle ==
    /\ \E screen \in BattleScreenInputs :
         \E updated \in {update_environment(env, screen)} :
           /\ ScoreInBound(updated)
           /\ env' = updated
    /\ probe' = [fn |-> "update_environment"]
    /\ UNCHANGED <<current_step, pc, pending, out>>

CalculateReward ==
    /\ env' = calculate_reward(env, wait_action, "None").env
    /\ probe' = [fn |-> "calculate_reward"]
    /\ UNCHANGED <<current_step, pc, pending, out>>

StartNewBattle ==
    /\ \E success \in BOOLEAN :
         /\ env' = start_new_battle(env, success)
         /\ probe' = [fn |-> "start_new_battle", success |-> success,
                      before |-> env]
    /\ UNCHANGED <<current_step, pc, pending, out>>

NextBattle ==
    \/ UpdateBattle
    \/ CalculateReward
    \/ StartNewBattle

SpecBattle == Init /\ [][NextBattle]_vars

(* C29: start_new_battle resets the per-battle state exactly when the      *)
(* start succeeds: then elixir is 0, the timer unknown, detections and     *)
(* hand empty, the score 0, the previous snapshot absent and in_battle     *)
(* true; when the start fails every field is left as it was.               *)
C29_ResetIffStarted ==
    probe.fn = "start_new_battle" =>
        IF probe.success
        THEN /\ env.elixir = 0
             /\ IsNone(env.timer)
             /\ env.troops = <<>>
             /\ env.hand = <<>>
             /\ env.score = 0
             /\ IsNone(env.prev_state)
             /\ env.in_battle
        ELSE env = probe.before

(* A start that succeeds on a state where every per-battle field differs   *)
(* from its reset value.                                                   *)
C29_Witness ==
    /\ probe.fn = "start_new_battle"
    /\ probe.success
    /\ probe.before.elixir > 0
    /\ ~IsNone(probe.before.timer)
    /\ Len(probe.before.troops) > 0
    /\ Len(probe.before.hand) > 0
    /\ probe.before.score # 0
    /\ ~IsNone(probe.before.prev_state)
    /\ ~probe.before.in_battle
    /\ env.elixir = 0 /\ env.in_battle

----------------------------------------------------------------------------
(* Specification SpecSB: BattleDetector.start_battle and the               *)
(* wait_for_battle_start calls it makes.  pc is the position of the call   *)
(* ("attempt" at the head of the for loop, "wait_play_again" and           *)
(* "wait_battle_button" at the head of the while loop of the wait entered  *)
(* after that click), pending holds the locals (attempt, the screenshot of *)
(* the attempt, the time elapsed since start_time), out the returned       *)
(* value and probe what the current attempt did.  The clock counts ticks   *)
(* of half a second, the length of the sleep between two polls.            *)

max_attempts == 5

wait_timeout == 30       \* seconds: start_battle passes timeout=30

TicksPerSecond == 2

MaxPollDelay == 1        \* a poll takes its sleep plus 0..MaxPollDelay ticks

(* What the three templates match on a screenshot. *)
ButtonScreens == [play_again : BOOLEAN, ok : BOOLEAN, battle_button : BOOLEAN]

(* for attempt in range(max_attempts), with one attempt more *)
attempts_left_six(attempt) == attempt < max_attempts + 1

(* for attempt in range(max_attempts) *)
attempts_left(attempt) == attempt < max_attempts

(* the loop of wait_for_battle_start returning True when the button is found *)
wait_poll_found_starts(elapsed, found, delay) ==
    IF found THEN [ret |-> Some(TRUE), elapsed |-> elapsed]
    ELSE [ret |-> None, elapsed |-> elapsed + 1 + delay]

(* One poll of wait_for_battle_start, entered with elapsed < timeout: the  *)
(* value returned (None while the loop goes on) and the time elapsed at    *)
(* the next test of the loop.                                              *)
wait_poll(elapsed, found, delay) ==
    IF ~found THEN [ret |-> Some(TRUE), elapsed |-> elapsed]
    ELSE [ret |-> None, elapsed |-> elapsed + 1 + delay]

(* What an attempt did so far: the templates tried and the buttons         *)
(* clicked on its screenshot, the waits that returned and the last poll.   *)
StartBattleTrace(attempts, tried, clicked, waits, polled) ==
    [fn |-> "start_battle", attempts |-> attempts, tried |-> tried,
     clicked |-> clicked, waits |-> waits, polled |-> polled]

Waited(button, ret) == [after |-> button, ret |-> ret]

(* The end of an attempt: sleep(2) and the next turn of the for loop. *)
next_attempt(locals, trace) ==
    [pc |-> "attempt",
     pending |-> Some([locals EXCEPT !.attempt = @ + 1]),
     probe |-> [trace EXCEPT !.polled = None]]

(* The ok button and the battle button of an attempt. *)
battle_flow(locals, trace) ==
    LET screen == locals.screen
        clicked == trace.clicked
                     \cup (IF screen.ok THEN {"ok"} ELSE {})
                     \cup (IF screen.battle_button THEN {"battle_button"} ELSE {})
        tried == [trace EXCEPT !.tried = @ \cup {"ok", "battle_button"},
                               !.clicked = clicked,
                               !.polled = None]
    IN  IF screen.battle_button
        THEN [pc |-> "wait_battle_button",
              pending |-> Some([locals EXCEPT !.elapsed = 0]),
              probe |-> tried]
        ELSE next_attempt(locals, tried)

(* the play again button clicked without waiting for the battle to start *)
play_again_flow_no_wait(locals, trace) ==
    battle_flow(locals,
                [trace EXCEPT !.clicked = IF locals.screen.play_again
                                          THEN {"play_again"} ELSE {}])

(* The play again button of an attempt, on its fresh screenshot. *)
play_again_flow(locals, trace) ==
    IF locals.screen.play_again
    THEN [pc |-> "wait_play_again",
          pending |-> Some([locals EXCEPT !.elapsed = 0]),
          probe |-> [trace EXCEPT !.clicked = {"play_again"}]]
    ELSE battle_flow(locals, trace)

(* What follows a wait that returned False. *)
after_timeout(position, locals, trace) ==
    IF position = "wait_play_again"
    THEN battle_flow(locals, trace)
    ELSE next_attempt(locals, trace)

StartBattle ==
    /\ pc = "idle"
    /\ pc' = "attempt"
    /\ pending' = Some([attempt |-> 0,
                        screen |-> [play_again |-> FALSE, ok |-> FALSE,
                                    battle_button |-> FALSE],
                        elapsed |-> 0])
    /\ out' = [call |-> "start_battle", status |-> "running"]
    /\ probe' = StartBattleTrace(0, {}, {}, <<>>, None)
    /\ UNCHANGED <<env, current_step>>

Attempt ==
    /\ pc = "attempt"
    /\ IF ~attempts_left(Val(pending).attempt)
       THEN /\ pc' = "idle"
            /\ pending' = None
            /\ out' = [call |-> "start_battle", status |-> "returned",
                       value |-> FALSE]
            /\ UNCHANGED probe
       ELSE \E screen \in ButtonScreens :
              \E next \in {play_again_flow(
                               [Val(pending) EXCEPT !.screen = screen],
                               StartBattleTrace(probe.attempts + 1,
                                                {"play_again"}, {}, <<>>, None))} :
                /\ pc' = next.pc
                /\ pending' = next.pending
                /\ probe' = next.probe
                /\ UNCHANGED out
    /\ UNCHANGED <<env, current_step>>

WaitPoll ==
    /\ pc \in {"wait_play_again", "wait_battle_button"}
    /\ LET locals == Val(pending)
           button == IF pc = "wait_play_again" THEN "play_again"
                     ELSE "battle_button"
       IN  IF ~(locals.elapsed < wait_timeout * TicksPerSecond)
           THEN \E next \in {after_timeout(pc, locals,
                               [probe EXCEPT !.waits = Append(@, Waited(button, FALSE)),
                                             !.polled = None])} :
                  /\ pc' = next.pc
                  /\ pending' = next.pending
                  /\ probe' = next.probe
                  /\ UNCHANGED out
           ELSE \E found \in BOOLEAN, delay \in 0..MaxPollDelay :
                  \E polled \in {wait_poll(locals.elapsed, found, delay)} :
                    IF IsNone(polled.ret)
                    THEN /\ pending' = Some([locals EXCEPT !.elapsed = polled.elapsed])
                         /\ probe' = [probe EXCEPT !.polled = Some(found)]
                         /\ UNCHANGED <<pc, out>>
                    ELSE /\ pc' = "idle"
                         /\ pending' = None
                         /\ probe' = [probe EXCEPT
                                        !.waits = Append(@, Waited(button, TRUE)),
                                        !.polled = Some(found)]
                         /\ out' = [call |-> "start_battle", status |-> "returned",
                                    value |-> TRUE]
    /\ UNCHANGED <<env, current_step>>

NextSB ==
    \/ StartBattle
    \/ Attempt
    \/ WaitPoll

(* A call that has begun goes on: each screenshot, match, click and sleep  *)
(* returns.                                                                *)
SpecSB == Init /\ [][NextSB]_vars /\ WF_vars(Attempt \/ WaitPoll)

(* What the last wait_for_battle_start of the current attempt returned. *)
LastWait == probe.waits[Len(probe.waits)]

C22_Bounded ==
    /\ (probe.fn = "start_battle" /\ pc # "idle")
         => Val(pending).attempt <= 5 /\ probe.attempts <= 5
    /\ Returned("start_battle")
         => /\ probe.attempts <= 5
            /\ (out.value => (Len(probe.waits) > 0 /\ LastWait.ret))
            /\ (~out.value => /\ probe.attempts = 5
                              /\ \A i \in 1..Len(probe.waits) : ~probe.waits[i].ret)

(* C22: start_battle always returns after at most 5 attempts; it returns   *)
(* true only right after a wait_for_battle_start call returned true, and   *)
(* false when no attempt both found a button to click and saw the battle   *)
(* start (then all 5 attempts were made); a call that has begun always     *)
(* returns, whatever the screenshots show.                                 *)
C22_StartBattleReturns ==
    /\ []C22_Bounded
    /\ [][(pc # "idle" /\ Len(probe'.waits) > 0
             /\ probe'.waits[Len(probe'.waits)].ret)
          => (out'.status = "returned" /\ out'.value)]_vars
    /\ (pc # "idle") ~> Returned("start_battle")

(* Five attempts, the last of which clicked both buttons and saw both      *)
(* waits time out: false is returned.                                      *)
C22_Witness ==
    /\ Returned("start_battle")
    /\ ~out.value
    /\ probe.attempts = 5
    /\ probe.waits = <<Waited("play_again", FALSE), Waited("battle_button", FALSE)>>

InWait == pc \in {"wait_play_again", "wait_battle_button"}

(* One step taken inside wait_for_battle_start, for a timeout of 30        *)
(* seconds, i.e. 60 ticks.                                                 *)
C27_Poll ==
    InWait =>
        LET elapsed == Val(pending).elapsed
            returned == Len(probe'.waits) = Len(probe.waits) + 1
            ret == probe'.waits[Len(probe'.waits)].ret
        IN  /\ (elapsed >= 60 => (returned /\ ~ret /\ IsNone(probe'.polled)))
            /\ elapsed < 60 =>
                 IF probe'.polled = Some(FALSE)
                 THEN returned /\ ret
                 ELSE /\ probe'.polled = Some(TRUE)
                      /\ ~returned
                      /\ pc' = pc
                      /\ Val(pending').elapsed > elapsed

(* C27: wait_for_battle_start polls the screen until the timeout: it       *)
(* returns true as soon as one poll finds the battle button absent, false  *)
(* if the button is found at every poll until the timeout has elapsed,     *)
(* and it always returns once the clock has passed the timeout.            *)
C27_WaitPollsUntilTimeout ==
    /\ [][C27_Poll]_vars
    /\ (pc = "wait_play_again") ~> (pc # "wait_play_again")
    /\ (pc = "wait_battle_button") ~> (pc # "wait_battle_button")

(* A wait that timed out, then a wait whose poll found the button absent. *)
C27_Witness ==
    /\ Returned("start_battle")
    /\ out.value
    /\ probe.waits = <<Waited("play_again", FALSE), Waited("battle_button", TRUE)>>
    /\ probe.polled = Some(FALSE)

(* C28, as stated: within one attempt the ok button and the battle button  *)
(* are tried only if the play again button was not found in that attempt;  *)
(* an attempt never clicks both the play again and the battle button.      *)
C28_BattleFlowOnlyWithoutPlayAgain ==
    probe.fn = "start_battle" =>
        /\ (probe.tried \cap {"ok", "battle_button"} # {})
             => "play_again" \notin probe.clicked
        /\ ~({"play_again", "battle_button"} \subseteq probe.clicked)

(* C28, amended: within one attempt the ok button and the battle button    *)
(* are tried only if the play again button was not found on the            *)
(* screenshot of that attempt or the wait that followed its click timed    *)
(* out; an attempt clicks both buttons only in the second case.            *)
C28_BattleFlowAfterTimeout ==
    (probe.fn = "start_battle"
       /\ probe.tried \cap {"ok", "battle_button"} # {})
    => \/ "play_again" \notin probe.clicked
       \/ /\ Len(probe.waits) > 0
          /\ probe.waits[1] = Waited("play_again", FALSE)

(* The wait after the play again click timed out and the battle button     *)
(* matched the screenshot of the attempt: both are clicked.                *)
C28_Witness ==
    /\ probe.fn = "start_battle"
    /\ {"play_again", "battle_button"} \subseteq probe.clicked
    /\ probe.waits = <<Waited("play_again", FALSE)>>
    /\ pc = "wait_battle_button"

----------------------------------------------------------------------------
(* Specification SpecTrain: train.py main from its try statement to the    *)
(* end of the program, with the user's interrupts (Ctrl+C) arriving at any *)
(* point.  pc is the position in main ("try" before start_time is          *)
(* assigned, "train" inside agent.train, "trained" in the rest of the try  *)
(* block, "handler" in the except clause, "save" and "close" before those  *)
(* calls, "exit" after the last statement, "crashed" when an exception     *)
(* left main), pending holds the locals, probe the interrupts received     *)
(* and the log of what main did.                                           *)

MaxTimesteps == 30       \* total_timesteps of the run

MaxInterrupts == 2       \* interrupts the user sends during one run

(* the try statement without its except KeyboardInterrupt clause *)
in_try_block_never(position) == FALSE

(* The positions inside the try block, whose KeyboardInterrupt is caught. *)
in_try_block(position) == position \in {"try", "train", "trained"}

MainTrace(interrupts, log) == [fn |-> "main", interrupts |-> interrupts, log |-> log]

Main ==
    /\ pc = "idle"
    /\ pc' = "try"
    /\ pending' = Some([start_time |-> None, timesteps |-> 0])
    /\ out' = [call |-> "main", status |-> "running"]
    /\ probe' = MainTrace(<<>>, <<>>)
    /\ UNCHANGED <<env, current_step>>

SetStartTime ==
    /\ pc = "try"
    /\ pc' = "train"
    /\ pending' = Some([Val(pending) EXCEPT !.start_time = Some(0)])
    /\ UNCHANGED <<env, current_step, out, probe>>

(* agent.train: model.learn runs total_timesteps steps, then returns. *)
Train ==
    /\ pc = "train"
    /\ IF Val(pending).timesteps < MaxTimesteps
       THEN /\ pending' = Some([Val(pending) EXCEPT !.timesteps = @ + 1])
            /\ UNCHANGED pc
       ELSE /\ pc' = "trained"
            /\ UNCHANGED pending
    /\ UNCHANGED <<env, current_step, out, probe>>

(* The rest of the try block: training_time and the prints. *)
Trained ==
    /\ pc = "trained"
    /\ pc' = "save"
    /\ UNCHANGED <<env, current_step, out, probe, pending>>

(* Ctrl+C: KeyboardInterrupt is raised at the current position. *)
Interrupt ==
    /\ pc \in {"try", "train", "trained", "handler", "save", "close"}
    /\ Len(probe.interrupts) < MaxInterrupts
    /\ probe' = [probe EXCEPT !.interrupts = Append(@, pc)]
    /\ IF in_try_block(pc)
       THEN /\ pc' = "handler"
            /\ UNCHANGED out
       ELSE /\ pc' = "crashed"
            /\ out' = Raises("main", "KeyboardInterrupt")
    /\ UNCHANGED <<env, current_step, pending>>

(* except KeyboardInterrupt: the prints, which read start_time. *)
Handler ==
    /\ pc = "handler"
    /\ IF IsNone(Val(pending).start_time)
       THEN /\ pc' = "crashed"
            /\ out' = Raises("main", "UnboundLocalError")
            /\ UNCHANGED probe
       ELSE /\ pc' = "save"
            /\ probe' = [probe EXCEPT !.log = Append(@, "caught")]
            /\ UNCHANGED out
    /\ UNCHANGED <<env, current_step, pending>>

(* agent.save(final_model_path) *)
Save ==
    /\ pc = "save"
    /\ pc' = "close"
    /\ probe' = [probe EXCEPT !.log = Append(@, "save")]
    /\ UNCHANGED <<env, current_step, pending, out>>

(* gym_env.close() and the last prints *)
Close ==
    /\ pc = "close"
    /\ pc' = "exit"
    /\ probe' = [probe EXCEPT !.log = Append(@, "close")]
    /\ out' = [call |-> "main", status |-> "returned"]
    /\ UNCHANGED <<env, current_step, pending>>

MainStep == SetStartTime \/ Train \/ Trained \/ Handler \/ Save \/ Close

NextTrain ==
    \/ Main
    \/ Interrupt
    \/ MainStep

(* The statements of main are executed one after the other; an interrupt   *)
(* may or may not come.                                                    *)
SpecTrain == Init /\ [][NextTrain]_vars /\ WF_vars(MainStep)

Ended == pc \in {"exit", "crashed"}

C24_SavedThenClosed ==
    /\ (probe.fn = "main" /\ pc = "exit")
         => \E log \in {probe.log} :
              /\ Len(log) >= 2
              /\ log[Len(log) - 1] = "save"
              /\ log[Len(log)] = "close"
    /\ (probe.fn = "main" /\ Ended /\ probe.interrupts = <<"train">>)
         => (pc = "exit" /\ probe.log = <<"caught", "save", "close">>)
    /\ (probe.fn = "main" /\ Ended /\ probe.interrupts = <<>>)
         => (pc = "exit" /\ probe.log = <<"save", "close">>)

(* C24: when the user interrupts the run during agent.train, the interrupt *)
(* is caught by main, the final model is then saved and the environment    *)
(* closed before the program exits; the same save and close happen when    *)
(* training completes without an interrupt.                                *)
C24_InterruptSavesModel ==
    /\ []C24_SavedThenClosed
    /\ (probe.fn = "main" /\ probe.interrupts = <<"train">>) ~> Ended
    /\ (pc = "trained") ~> Ended

(* A run interrupted after 7 of its timesteps has saved and closed. *)
C24_Witness ==
    /\ pc = "exit"
    /\ probe.fn = "main"
    /\ probe.interrupts = <<"train">>
    /\ Val(pending).timesteps = 7
    /\ probe.log = <<"caught", "save", "close">>

----------------------------------------------------------------------------
(* Specification SpecTick: episodes of up to MaxTickSteps steps on frames  *)
(* that differ in elixir, hand, detections (also a failed detector call)   *)
(* and battle end, with actions the action space holds.                    *)

MaxTickSteps == 3

TickScreens ==
    {BaseScreen,
     [BaseScreen EXCEPT !.pixels = PixelRun(7), !.found = {"knight"}],
     [BaseScreen EXCEPT !.predictions = Some(EnemyTowerDown)],
     [BaseScreen EXCEPT !.predictions = Some(AllyTowerDown)],
     [BaseScreen EXCEPT !.predictions = None],
     [BaseScreen EXCEPT !.game = AllyWins],
     [BaseScreen EXCEPT !.game = OkOnly],
     [BaseScreen EXCEPT !.full = OkOnly]}

TickActions == {0, 6, wait_action}

TickReset == ResetOn(StartOutcomes, TickScreens)

TickStepAct == StepActOn(TickScreens, TickActions, MaxTickSteps)

TickStepObserve == StepObserveOn(TickScreens)

NextTick ==
    \/ TickReset
    \/ TickStepAct
    \/ TickStepObserve

SpecTick == Init /\ [][NextTick]_vars

(* A step returns: the call was at its sleep and is now back. *)
StepReturns == pc = "sleep" /\ pc' = "idle"

(* On the return of a step the snapshot kept is the features the returned  *)
(* observation encodes; after the first step of an episode the reward is   *)
(* computed from the snapshot held since the preceding step.               *)
C31_StoredOnReturn ==
    StepReturns =>
        /\ ~IsNone(env'.prev_state)
        /\ out'.observation = encode_observation(Val(env'.prev_state))
        /\ env'.prev_state = Some(features_of(env'))
        /\ out'.info.step >= 2 =>
             /\ probe'.calculated
             /\ out'.reward = calculate(env.reward_calculator, Val(env.prev_state),
                                        Val(env'.prev_state), probe'.action,
                                        out'.info.battle_result)

(* The snapshot changes only when a step returns or a reset clears it. *)
C31_KeptBetween ==
    (env'.prev_state # env.prev_state)
    => \/ StepReturns
       \/ probe'.fn = "reset" /\ IsNone(env'.prev_state)

(* C31: after every step the previous-feature snapshot kept by the         *)
(* Environment equals the features of the state the returned observation   *)
(* was encoded from; for every step after the first of an episode the      *)
(* previous features given to RewardCalculator are the snapshot stored by  *)
(* the preceding step, not the features of the pre-action update; and a    *)
(* stored snapshot is not modified until the next step replaces it.        *)
C31_SnapshotRetained == [][C31_StoredOnReturn /\ C31_KeptBetween]_vars

(* The second step of an episode sees an enemy tower gone since the        *)
(* snapshot of the first step: the reward holds the tower term.            *)
C31_Witness ==
    /\ Returned("step")
    /\ out.info.step = 2
    /\ probe.calculated
    /\ probe.action = wait_action
    /\ out.info.battle_result = "None"
    /\ Val(env.prev_state).enemy_towers_alive = 2
    /\ out.reward >= 100 * RewardScale

----------------------------------------------------------------------------
(* Specification SpecDet: update_environment and reset_state in any order, *)
(* on frames for which the detector returns any list of up to              *)
(* MaxPredictions detections, or fails.                                    *)

MaxPredictions == 2

PredictionInputs ==
    {None, Some(Board), Some(EnemyTowerDown)}
    \cup {Some(l) : l \in SeqsUpTo(0..MaxClass, MaxPredictions)}

UpdateDetections ==
    /\ \E predictions \in PredictionInputs :
         \E updated \in {update_environment(
                            env, [BaseScreen EXCEPT !.predictions = predictions])} :
           /\ ScoreInBound(updated)
           /\ env' = updated
           /\ probe' = [fn |-> "update_environment", predictions |-> predictions]
    /\ UNCHANGED <<current_step, pc, pending, out>>

NextDet ==
    \/ UpdateDetections
    \/ ResetState

SpecDet == Init /\ [][NextDet]_vars

(* C33: after every update_environment the detection list holds exactly    *)
(* the detections the detector returned for that tick, in their order, and *)
(* nothing of earlier ticks; when the detector call fails the list is      *)
(* empty and the update completes.                                         *)
C33_DetectionsOfThisTick ==
    probe.fn = "update_environment" =>
        IF IsNone(probe.predictions)
        THEN env.troops = <<>>
        ELSE /\ Len(env.troops) = Len(Val(probe.predictions))
             /\ \A k \in 1..Len(env.troops) :
                  env.troops[k].class = Val(probe.predictions)[k]

(* Two detections are returned on the tick after one that returned six. *)
C33_Witness ==
    /\ probe.fn = "update_environment"
    /\ probe.predictions = Some(<<5, 2>>)
    /\ env.troops = <<Detection(5), Detection(2)>>
    /\ env.score = 1

----------------------------------------------------------------------------
(* Specification SpecFlag: the operations that a run applies to the        *)
(* Environment (update_environment, calculate_reward, start_new_battle),   *)
(* in any order, on frames that differ in what the two battle-end checks   *)
(* read on the game area and on the raw frame.                             *)

FlagScreens ==
    {[BaseScreen EXCEPT !.game = game, !.full = full, !.pixels = PixelRun(k)] :
        game \in {NoEnd, AllyWins, EnemyWins, OkOnly},
        full \in {NoEnd, AllyWins, OkOnly},
        k \in {4, 7}}

UpdateFlag ==
    /\ \E screen \in FlagScreens :
         \E updated \in {update_environment(env, screen)} :
           /\ ScoreInBound(updated)
           /\ env' = updated
           /\ probe' = [fn |-> "update_environment", game |-> screen.game,
                        full |-> screen.full, before |-> env.in_battle]
    /\ UNCHANGED <<current_step, pc, pending, out>>

NextFlag ==
    \/ UpdateFlag
    \/ CalculateReward
    \/ StartNewBattle

SpecFlag == Init /\ [][NextFlag]_vars

(* One of the two checks of an update reads a battle end. *)
EndDetected(game, full) ==
    \/ detect_battle_end(game) \in {"victory", "defeat", "draw"}
    \/ detect_battle_end(full) \in {"victory", "defeat", "draw"}

C37_Flag ==
    /\ (~env.in_battle /\ env'.in_battle)
         => (probe'.fn = "start_new_battle" /\ probe'.success)
    /\ probe'.fn = "update_environment"
         => env'.in_battle = IF EndDetected(probe'.game, probe'.full)
                             THEN FALSE
                             ELSE env.in_battle

(* C37: update_environment never sets in_battle to true: once an update    *)
(* has detected a battle end, on the cropped frame or on the raw frame,    *)
(* in_battle stays false through all later updates, and only a successful  *)
(* start_new_battle sets it back to true; an update in which neither       *)
(* check detects an end leaves in_battle unchanged.                        *)
C37_InBattleOnlyCleared == [][C37_Flag]_vars

(* in_battle was true and only the check of the raw frame reads an end. *)
C37_Witness ==
    /\ probe.fn = "update_environment"
    /\ probe.before
    /\ probe.game = NoEnd
    /\ probe.full = OkOnly
    /\ ~env.in_battle

----------------------------------------------------------------------------
(* Specification SpecCfg: the reward of a step of a run whose              *)
(* configuration file gives the weights REWARD_WEIGHTS, as shipped or      *)
(* edited.                                                                 *)

(* config/agent_config.py, as shipped *)
REWARD_WEIGHTS ==
    [tower_destroyed  |-> 100 * RewardScale,
     tower_lost       |-> (0 - 100) * RewardScale,
     elixir_advantage |-> 1 * RewardScale,
     win              |-> 1000 * RewardScale,
     loss             |-> (0 - 1000) * RewardScale,
     draw             |-> 0,
     time_penalty     |-> 0 - (RewardScale \div 100)]

ConfigInputs == {REWARD_WEIGHTS, AltWeights}

(* main: env_core = Environment(roboflow_client).  The weights of the      *)
(* configuration are imported and passed to nothing.                       *)
main_environment(reward_weights) == Environment

InitCfgCalls ==
    \E reward_weights \in ConfigInputs, e \in {4, 10},
       troops \in TroopListInputs,
       prev_state \in {Some(f) : f \in FeaturesWith({Frac(5, 10)})},
       action \in {0, wait_action}, battle_result \in BattleResultInputs :
        probe = Pending("step_reward",
                        [REWARD_WEIGHTS |-> reward_weights,
                         elixir |-> e, troops |-> troops,
                         prev_state |-> prev_state, action |-> action,
                         battle_result |-> battle_result])

(* The reward computation of a step on the Environment that main built. *)
CallStepReward ==
    /\ probe.fn = "step_reward" /\ ~probe.done
    /\ probe' = Done(probe.fn, probe.args,
                     Return(calculate_reward(
                                [main_environment(probe.args.REWARD_WEIGHTS) EXCEPT
                                    !.in_battle = TRUE,
                                    !.elixir = probe.args.elixir,
                                    !.troops = probe.args.troops,
                                    !.prev_state = probe.args.prev_state],
                                probe.args.action,
                                probe.args.battle_result).reward))
    /\ UNCHANGED gymVars

NextCfg == CallStepReward

InitCfg == InitCfgCalls /\ GymInit

SpecCfg == InitCfg /\ [][NextCfg]_vars

(* C39: the rewards returned by step use the weights of the configuration  *)
(* (REWARD_WEIGHTS): the reward is the one RewardCalculator gives with     *)
(* the configured weights, so that changing a configured weight changes    *)
(* the corresponding reward term.                                          *)
C39_ConfiguredWeightsUsed ==
    Called("step_reward") =>
        probe.ret = Return(calculate(probe.args.REWARD_WEIGHTS,
                                     Val(probe.args.prev_state),
                                     features_of([elixir |-> probe.args.elixir,
                                                  troops |-> probe.args.troops]),
                                     probe.args.action,
                                     probe.args.battle_result))

----------------------------------------------------------------------------
(* Specification SpecEx: ActionExecutor.execute for every action id of the *)
(* action space, every hand of at most max_hand_size slots and every       *)
(* elixir value.                                                           *)

ExecuteHands == SeqsUpTo(SlotInputs, max_hand_size)

InitExCalls ==
    \E action_id \in 0..(num_actions - 1), hand \in ExecuteHands,
       elixir \in ElixirInputs :
        probe = Pending("execute",
                        [action_id |-> action_id, hand |-> hand, elixir |-> elixir])

CallExecute ==
    /\ probe.fn = "execute" /\ ~probe.done
    /\ probe' = Done(probe.fn, probe.args,
                     execute(probe.args.action_id,
                             [Environment EXCEPT !.hand = probe.args.hand,
                                                 !.elixir = probe.args.elixir]))
    /\ UNCHANGED gymVars

NextEx == CallExecute

InitEx == InitExCalls /\ GymInit

SpecEx == InitEx /\ [][NextEx]_vars

(* C35: the validation of execute agrees with the mask of the same state:  *)
(* for every hand of at most 4 slots, elixir in 0..10 and id in 0..24,     *)
(* execute reports success exactly when the mask entry of the id is true,  *)
(* and a placement is issued exactly when the id is not the wait id and    *)
(* its mask entry is true; an issued placement names an existing slot of   *)
(* the hand whose cost is at most the elixir.                              *)
C35_ExecuteAgreesWithMask ==
    Called("execute") =>
        LET id == probe.args.action_id
            hand == probe.args.hand
            mask == get_action_mask(Some(hand), probe.args.elixir)
            slot == (id \div 6) + 1
        IN  /\ ~Raised(mask)
            /\ ~Raised(probe.ret.ret)
            /\ probe.ret.ret.val = mask.val[id]
            /\ ~IsNone(probe.ret.placed) <=> (id # 24 /\ mask.val[id])
            /\ ~IsNone(probe.ret.placed) =>
                 /\ slot <= Len(hand)
                 /\ hand[slot].elixir_cost <= probe.args.elixir
                 /\ Val(probe.ret.placed).card = hand[slot].card
                 /\ Val(probe.ret.placed).position_idx = id % 6

(* The third slot of a full hand is played at elixir equal to its cost. *)
C35_Witness ==
    /\ Called("execute")
    /\ probe.args.action_id = 14
    /\ Len(probe.args.hand) = 4
    /\ probe.args.hand[3].elixir_cost = 4
    /\ probe.args.elixir = 4
    /\ probe.ret.ret = Return(TRUE)
    /\ ~IsNone(probe.ret.placed)

----------------------------------------------------------------------------
(* Specification SpecLoop: the standard loop of evaluate.py and of the     *)
(* training library over the GymEnvironment: reset, then step while the    *)
(* last step returned neither terminated nor truncated, then reset again.  *)

LoopScreens ==
    {BaseScreen,
     [BaseScreen EXCEPT !.pixels = PixelRun(7)],
     [BaseScreen EXCEPT !.game = AllyWins]}

LoopActions == {0, wait_action}

(* done = terminated or truncated; before the first reset no episode runs *)
EpisodeOver ==
    \/ out.call = "init"
    \/ Returned("step") /\ (out.terminated \/ out.truncated)

LoopReset == EpisodeOver /\ ResetOn(LongStarts, LoopScreens)

LoopStepAct == ~EpisodeOver /\ StepActOn(LoopScreens, LoopActions, MaxEpisodeSteps)

LoopStepObserve == StepObserveOn(LoopScreens)

NextLoop ==
    \/ LoopReset
    \/ LoopStepAct
    \/ LoopStepObserve

(* The effect on pc of the two halves of a step of the loop: a step      *)
(* called while the episode runs reaches its sleep, and a sleeping step   *)
(* wakes up and returns.                                                  *)
StepStarts == pc = "idle" /\ ~EpisodeOver /\ pc' = "sleep"

StepEnds == pc = "sleep" /\ pc' = "idle"

(* The loop goes on while the episode runs: `while not done' calls step   *)
(* again, and time.sleep(1.0) ends.  Nothing forces another episode.      *)
SpecLoop == Init /\ [][NextLoop]_vars /\ WF_pc(StepStarts) /\ WF_pc(StepEnds)

(* C36: an episode driven by the standard loop ends after at most 300      *)
(* steps even when no terminal battle result is ever detected, and so      *)
(* does every later episode of the run: the step counter of an episode     *)
(* never passes 300, the step that makes it 300 returns truncated, and     *)
(* every episode that runs is over at some point.                          *)
C36_EpisodeEndsWithinLimit ==
    /\ [](current_step <= 300)
    /\ []((Returned("step") /\ out.info.step = 300) => out.truncated)
    /\ (~EpisodeOver) ~> EpisodeOver

(* The 300th step of an episode with no battle end detected. *)
C36_Witness ==
    /\ Returned("step")
    /\ out.info.step = 300
    /\ out.truncated
    /\ ~out.terminated
    /\ out.info.battle_result = "None"

----------------------------------------------------------------------------
(* The per-battle state around the read-only operations of a step.         *)

StepSleeps == pc = "idle" /\ pc' = "sleep"

(* Up to the sleep the state is the one the pre-action update left:        *)
(* get_valid_action_mask and ActionExecutor.execute have run on it.        *)
C34_MaskAndExecuteKeep ==
    StepSleeps =>
        \E screen \in TickScreens : env' = update_environment(env, screen)

(* On return the state is the one the post-action update left, but for    *)
(* the snapshot: get_observation, is_battle_ended and calculate_reward    *)
(* have run on it.                                                        *)
C34_ObserveAndRewardKeep ==
    StepReturns =>
        \E screen \in TickScreens :
            /\ probe'.game = screen.game
            /\ env' = [update_environment(env, screen) EXCEPT
                         !.prev_state = env'.prev_state]

(* C34: only Environment operations change the per-battle state:           *)
(* ActionExecutor.execute, get_valid_action_mask, get_observation and      *)
(* is_battle_ended leave elixir, timer, detections, hand, score,           *)
(* in_battle and the previous snapshot as they were, and calculate_reward  *)
(* changes the previous snapshot only.                                     *)
C34_OnlyEnvironmentChangesState ==
    [][C34_MaskAndExecuteKeep /\ C34_ObserveAndRewardKeep]_vars

(* A step that placed a card and then read a frame with detections: the   *)
(* state returned still holds the elixir and the detections of the read.  *)
C34_Witness ==
    /\ Returned("step")
    /\ probe.action = 0
    /\ out.info.action_success
    /\ probe.calculated
    /\ env.troops # <<>>
    /\ out.info.troops_detected = Len(env.troops)
    /\ out.info.elixir = env.elixir
    /\ env.elixir > 0

----------------------------------------------------------------------------
(* Specification SpecOrder: reset and step run one statement at a time.    *)
(* probe is the running call: its next statement, the number of frames    *)
(* it has taken, and the operations it has performed so far; pending      *)
(* holds its local variables.                                             *)

MaxOrderSteps == 2

OrderScreens ==
    {BaseScreen,
     [BaseScreen EXCEPT !.pixels = PixelRun(7), !.found = {"knight"}],
     [BaseScreen EXCEPT !.game = AllyWins]}

OrderActions == {0, wait_action}

(* step with the terminal check moved before the post-action screenshot *)
step_body_check_before_update ==
    <<"count_step", "screenshot", "update_environment",
      "get_valid_action_mask", "execute", "sleep", "is_battle_ended",
      "screenshot", "update_environment", "get_observation",
      "calculate_reward", "return">>

(* The statements of GymEnvironment.step, in the order of its body. *)
step_body ==
    <<"count_step", "screenshot", "update_environment",
      "get_valid_action_mask", "execute", "sleep", "screenshot",
      "update_environment", "get_observation", "is_battle_ended",
      "calculate_reward", "return">>

(* The statements of GymEnvironment.reset, in the order of its body. *)
reset_body ==
    <<"start_new_battle", "retry_start_new_battle", "sleep", "screenshot",
      "update_environment", "get_observation", "zero_step", "return">>

body_of(fn) == IF fn = "reset" THEN reset_body ELSE step_body

Locals(action) ==
    [action |-> action, success |-> FALSE, screen |-> BaseScreen,
     action_success |-> FALSE, observation |-> get_observation(Environment),
     battle_result |-> "None", reward |-> 0]

Call(fn, action) ==
    /\ pc = "idle"
    /\ pc' = fn
    /\ probe' = [fn |-> fn, at |-> 1, frames |-> 0, ops |-> <<>>]
    /\ pending' = Some(Locals(action))
    /\ out' = [call |-> fn, status |-> "running"]
    /\ UNCHANGED <<env, current_step>>

CallReset == Call("reset", wait_action)

CallStep == current_step < MaxOrderSteps /\ \E action \in OrderActions : Call("step", action)

Op(name) == [op |-> name, frame |-> probe.frames]

Advance(ops) == probe' = [probe EXCEPT !.at = @ + 1, !.ops = @ \o ops]

(* The next statement of the running call. *)
RunStatement ==
    /\ pc # "idle"
    /\ LET statement == body_of(pc)[probe.at]
           locals == Val(pending)
       IN  CASE statement = "start_new_battle" ->
                  \E success \in BOOLEAN :
                      /\ env' = start_new_battle(env, success)
                      /\ pending' = Some([locals EXCEPT !.success = success])
                      /\ Advance(<<Op("start_new_battle")>>)
                      /\ UNCHANGED <<pc, current_step, out>>
             [] statement = "retry_start_new_battle" ->
                  IF locals.success
                  THEN Advance(<<>>) /\ UNCHANGED <<env, pc, current_step, pending, out>>
                  ELSE \E success \in BOOLEAN :
                      /\ env' = start_new_battle(env, success)
                      /\ pending' = Some([locals EXCEPT !.success = success])
                      /\ Advance(<<Op("start_new_battle")>>)
                      /\ UNCHANGED <<pc, current_step, out>>
             [] statement \in {"sleep", "get_valid_action_mask"} ->
                  Advance(<<>>) /\ UNCHANGED <<env, pc, current_step, pending, out>>
             [] statement = "count_step" ->
                  /\ current_step' = current_step + 1
                  /\ Advance(<<>>)
                  /\ UNCHANGED <<env, pc, pending, out>>
             [] statement = "zero_step" ->
                  /\ current_step' = 0
                  /\ Advance(<<>>)
                  /\ UNCHANGED <<env, pc, pending, out>>
             [] statement = "screenshot" ->
                  \E screen \in OrderScreens :
                      /\ pending' = Some([locals EXCEPT !.screen = screen])
                      /\ probe' = [probe EXCEPT !.at = @ + 1, !.frames = @ + 1]
                      /\ UNCHANGED <<env, pc, current_step, out>>
             [] statement = "update_environment" ->
                  /\ env' = update_environment(env, locals.screen)
                  /\ Advance(<<Op("update_environment")>>)
                  /\ UNCHANGED <<pc, current_step, pending, out>>
             [] statement = "execute" ->
                  LET executed == ActOn(locals.action, get_valid_action_mask(env), env)
                  IN  IF Raised(executed.ret)
                      THEN /\ out' = Raises("step", executed.ret.exc)
                           /\ pc' = "idle"
                           /\ pending' = None
                           /\ UNCHANGED <<env, current_step, probe>>
                      ELSE /\ pending' = Some([locals EXCEPT
                                                 !.action_success = executed.ret.val])
                           /\ Advance(IF IsNone(executed.placed) THEN <<>>
                                      ELSE <<Op("place_card")>>)
                           /\ UNCHANGED <<env, pc, current_step, out>>
             [] statement = "get_observation" ->
                  /\ pending' = Some([locals EXCEPT !.observation = get_observation(env)])
                  /\ Advance(<<>>)
                  /\ UNCHANGED <<env, pc, current_step, out>>
             [] statement = "is_battle_ended" ->
                  /\ pending' = Some([locals EXCEPT
                                        !.battle_result = is_battle_ended(locals.screen)])
                  /\ Advance(<<Op("is_battle_ended")>>)
                  /\ UNCHANGED <<env, pc, current_step, out>>
             [] statement = "calculate_reward" ->
                  LET rewarded == calculate_reward(env, locals.action, locals.battle_result)
                  IN  /\ env' = rewarded.env
                      /\ pending' = Some([locals EXCEPT !.reward = rewarded.reward])
                      /\ Advance(<<Op("calculate_reward")>>)
                      /\ UNCHANGED <<pc, current_step, out>>
             [] statement = "return" ->
                  /\ pc' = "idle"
                  /\ pending' = None
                  /\ out' = IF pc = "reset"
                            THEN [call |-> "reset", status |-> "returned",
                                  observation |-> locals.observation,
                                  info |-> Info(env)]
                            ELSE [call |-> "step", status |-> "returned",
                                  observation |-> locals.observation,
                                  reward |-> locals.reward,
                                  terminated |-> locals.battle_result # "None",
                                  truncated |-> step_limit_reached(current_step),
                                  info |-> [elixir |-> env.elixir,
                                            hand_size |-> Len(env.hand),
                                            troops_detected |-> Len(env.troops),
                                            action_success |-> locals.action_success,
                                            battle_result |-> locals.battle_result,
                                            step |-> current_step]]
                  /\ UNCHANGED <<env, current_step, probe>>

NextOrder ==
    \/ CallReset
    \/ CallStep
    \/ RunStatement

SpecOrder == Init /\ [][NextOrder]_vars

OpNames(ops) == [i \in 1..Len(ops) |-> ops[i].op]

(* The operations of a completed step: the update of the first frame, a   *)
(* placement or none, then on the second frame the update and the         *)
(* terminal check, then the reward.                                       *)
C32_StepOrder ==
    Returned("step") =>
        LET ops == probe.ops
            rest == IF ops[2].op = "place_card" THEN SubSeq(ops, 3, Len(ops))
                    ELSE SubSeq(ops, 2, Len(ops))
        IN  /\ ops[1] = [op |-> "update_environment", frame |-> 1]
            /\ rest = <<[op |-> "update_environment", frame |-> 2],
                        [op |-> "is_battle_ended", frame |-> 2],
                        [op |-> "calculate_reward", frame |-> 2]>>
            /\ out.info.action_success \/ ops[2].op # "place_card"

(* The operations of a completed reset: one or two start attempts, then   *)
(* one update of the one frame taken.                                     *)
C32_ResetOrder ==
    Returned("reset") =>
        /\ OpNames(probe.ops) \in
              {<<"start_new_battle", "update_environment">>,
               <<"start_new_battle", "start_new_battle", "update_environment">>}
        /\ probe.ops[Len(probe.ops)].frame = 1

(* While a call runs, the next operation is one of that call. *)
C32_NoInterleaving ==
    pc # "idle" =>
        /\ probe'.fn = probe.fn
        /\ pc' \in {pc, "idle"}
        /\ \E more \in {<<>>} \cup {<<[op |-> name, frame |-> probe'.frames]>> :
                                     name \in {"start_new_battle", "update_environment",
                                               "place_card", "is_battle_ended",
                                               "calculate_reward"}} :
               probe'.ops = probe.ops \o more

(* C32: each completed step performs, in this order and with nothing in   *)
(* between, exactly one pre-action update, at most one placement command, *)
(* exactly one post-action update, the terminal check on the post-action  *)
(* frame and the reward computation; a reset performs exactly one update  *)
(* after its start attempts; and no operation of a step begins before     *)
(* the previous call has returned.                                        *)
C32_FixedOperationOrder ==
    /\ [](C32_StepOrder /\ C32_ResetOrder)
    /\ [][C32_NoInterleaving]_vars

(* A step that placed a card and whose post-action frame showed the end   *)
(* of the battle.                                                         *)
C32_Witness ==
    /\ Returned("step")
    /\ Len(probe.ops) = 5
    /\ probe.ops[2].op = "place_card"
    /\ out.terminated
    /\ out.info.step = 2

====
